---- MODULE Spec2Model ----
(***************************************************************************)
(* Lifecycle of the device service in src/src/c/service.c:                 *)
(* edgex_device_service_new, edgex_device_service_start (with              *)
(* startConfigured), edgex_device_post_readings / doPost, the scheduled    *)
(* jobs and edgex_device_service_stop.                                     *)
(*                                                                         *)
(* The main thread's position is pc.  Every call the service makes to a    *)
(* collaborator (registry, core-data, core-metadata, REST server, driver,  *)
(* scheduler, worker pool) is one step; the collaborator's answer is a     *)
(* nondeterministic choice.  A collaborator that fails sets *err; one that *)
(* succeeds leaves *err as it found it, which is why the code resets *err  *)
(* itself (lines 237, 380, 426, 457, 492, 679).                            *)
(***************************************************************************)
EXTENDS Integers, Sequences, FiniteSets, TLC

VARIABLES
  pc,      \* position of the application's main thread
  err,     \* *err, the caller's edgex_error
  svc,     \* the edgex_device_service struct
  args,    \* arguments of the calls in progress (start, stop)
  loc,     \* locals of edgex_device_service_start / startConfigured
  heap,    \* allocations that are live
  faults,  \* memory faults so far (a free of something not live)
  calls,   \* the calls made by the API call in progress (or the last one), in order
  conc     \* HTTP-server threads, scheduler thread and worker pool

vars == <<pc, err, svc, args, loc, heap, faults, calls, conc>>

-----------------------------------------------------------------------------
(* Bounds of the model *)

MaxRetries == 2     \* largest configured Service.ConnectRetries
MaxPings == 3       \* pings of one retry loop that are followed
MaxRequests == 1    \* HTTP request handlers in flight
MaxFirings == 1     \* scheduled jobs in flight
MaxQueue == 1       \* doPost jobs waiting in the worker pool

(* Program constants *)

POOL_THREADS == 8
\* one ping more than line 647 allows
SixRegistryRetries == 5 + 1
\* int retries = 5, line 647
RegistryRetries == 5
IntMax == 2147483647
IntMin == -IntMax - 1

NULL == "NULL"

EDGEX_DEV_API_PING == <<"api", "v1", "ping">>
EDGEX_DEV_API_DISCOVERY == <<"api", "v1", "discovery">>
EDGEX_DEV_API_DEVICE == <<"api", "v1", "device", "">>
EDGEX_DEV_API_CALLBACK == <<"api", "v1", "callback">>
EDGEX_DEV_API_CONFIG == <<"api", "v1", "config">>
EDGEX_DEV_API_METRICS == <<"api", "v1", "metrics">>

-----------------------------------------------------------------------------
(* Helpers *)

Range(s) == {s[i] : i \in 1..Len(s)}

\* the position of the first occurrence of x in s, 0 when there is none
IndexOf(s, x) ==
  IF x \in Range(s) THEN CHOOSE i \in 1..Len(s) : s[i] = x /\ \A j \in 1..(i-1) : s[j] # x
  ELSE 0

\* x occurs in s, and before every occurrence of y
Before(s, x, y) == IndexOf(s, x) > 0 /\ (IndexOf(s, y) = 0 \/ IndexOf(s, x) < IndexOf(s, y))

\* the element of sequence s that follows label l; end when l is the last
NextIn(s, l, end) == IF IndexOf(s, l) < Len(s) THEN s[IndexOf(s, l) + 1] ELSE end

\* s with x taken out and put back right after y
MovedAfter(s, x, y) ==
  LET rest == SelectSeq(s, LAMBDA e : e # x)
      k == IndexOf(rest, y)
  IN SubSeq(rest, 1, k) \o <<x>> \o SubSeq(rest, k + 1, Len(rest))

Count(s, x) == Cardinality({i \in 1..Len(s) : s[i] = x})

\* free (tok): a fault unless tok is live.  free (NULL) does nothing.
FreeHeap(h, toks) == h \ toks
FreeFaults(h, f, toks) == f \cup {t \in toks : t \notin h}

-----------------------------------------------------------------------------
(* Values *)

Names == {NULL, "", "device-x"}
Versions == {NULL, "", "1.0"}
ImplData == {NULL, "impl"}
RegistryURLs == {NULL, "consul://registry"}
Profiles == {NULL, "docker"}

\* Paths a schedule-event can carry: discovery, a device command, anything else
DeviceCommandPath == <<"api", "v1", "device", "all", "temperature">>
OtherPath == <<"api", "v1", "reboot">>
EventPaths == {EDGEX_DEV_API_DISCOVERY, DeviceCommandPath, OtherPath}

\* strcmp (path, EDGEX_DEV_API_DISCOVERY) == 0
IsDiscoveryPath(path) == path = EDGEX_DEV_API_DISCOVERY

\* strncmp (path, EDGEX_DEV_API_DEVICE, strlen (EDGEX_DEV_API_DEVICE)) == 0:
\* the path starts with "/api/v1/device/", the trailing slash included
IsDevicePath(path) ==
  /\ Len(path) >= Len(EDGEX_DEV_API_DEVICE)
  /\ SubSeq(path, 1, Len(EDGEX_DEV_API_DEVICE) - 1)
       = SubSeq(EDGEX_DEV_API_DEVICE, 1, Len(EDGEX_DEV_API_DEVICE) - 1)

\* the path itself, the prefix not skipped
WholePath(path) == path

\* path + strlen (EDGEX_DEV_API_DEVICE)
DeviceSuffix(path) == SubSeq(path, Len(EDGEX_DEV_API_DEVICE), Len(path))

\* Service.ConnectRetries, Service.CheckInterval, the number of [[Schedules]]
\* and the paths of the [[ScheduleEvents]] that a configuration can hold
ConnectRetries == 0..MaxRetries
CheckIntervals == {0, 10}
ScheduleCounts == {0, 2}
ConfiguredEvents ==
  { <<>>, <<EDGEX_DEV_API_DISCOVERY>>, <<OtherPath>>,
    <<DeviceCommandPath, EDGEX_DEV_API_DISCOVERY>>, <<DeviceCommandPath, OtherPath>> }

\* svc->config after edgex_device_populateConfig / populateConfigNV.  The
\* steps after the two retry loops do not read connectretries, so the
\* configurations with schedules, events or a check interval keep it at 1.
Configs ==
  { c \in [connectretries : ConnectRetries, checkinterval : CheckIntervals,
           schedules : ScheduleCounts, scheduleevents : ConfiguredEvents] :
      \/ c.connectretries = 1
      \/ c.checkinterval = 0 /\ c.schedules = 0 /\ c.scheduleevents = <<>> }

\* the schedule-events core-metadata can hold for the service, by path
MetadataEvents ==
  { <<>>, <<EDGEX_DEV_API_DISCOVERY>>, <<OtherPath>>, <<DeviceCommandPath>>,
    <<DeviceCommandPath, EDGEX_DEV_API_DISCOVERY>>,
    <<DeviceCommandPath, DeviceCommandPath>>,
    <<EDGEX_DEV_API_DISCOVERY, OtherPath>> }

\* svc->config after the memset of edgex_device_service_new
NoConfig == [connectretries |-> 0, checkinterval |-> 0, schedules |-> 0, scheduleevents |-> <<>>]

NoService == [alloc |-> "none"]

\* created: core-metadata has taken a create of this start (the answer was
\* success, not CONFLICT and not an error), so its state is no longer the
\* one the start found
NoLocals ==
  [registry |-> NULL, config |-> NULL, uploadConfig |-> FALSE, profile |-> NULL,
   retries |-> 0, pings |-> 0, pong |-> FALSE, ds |-> "unset", addr |-> "unset",
   i |-> 0, step |-> 0, events |-> <<>>, created |-> FALSE]

\* started: what the start call answered, as the caller of stop knows it
NoArgs == [registryURL |-> NULL, profile |-> NULL, force |-> FALSE, started |-> "UNSET"]

\* svc->deviceslock, before pthread_rwlock_init
NoLock == [kind |-> "unset", readers |-> 0, writer |-> FALSE, rwait |-> 0, wwait |-> 0]

\* no request handed to ping_handler yet
NoPing ==
  [stage |-> "none", url |-> <<>>, method |-> "GET", upload_data |-> "",
   status |-> 0, reply |-> NULL, reply_type |-> NULL]

\* posts: the calls of edgex_device_post_readings so far; fired: the firings
\* of scheduled jobs so far; lock: svc->deviceslock; ping: the request that
\* ping_handler was last given. They are followed only where the threads are
\* modelled step by step (SpecPost, SpecJobs, SpecLock, SpecPing).
Idle ==
  [requests |-> 0, firings |-> 0, queue |-> 0, deadSubmit |-> FALSE,
   posts |-> <<>>, fired |-> <<>>, lock |-> NoLock, ping |-> NoPing]

\* a collaborator that succeeds may leave *err alone or set it to OK
ErrAfterSuccess(e) == {e, "OK"}

Log(op, arg) == Append(calls, <<op, arg>>)
\* the retry loops enter their ping once, however often it is repeated
LogOnce(op, arg) == IF <<op, arg>> \in Range(calls) THEN calls ELSE Log(op, arg)
Ops == [i \in 1..Len(calls) |-> calls[i][1]]
Called(op) == op \in Range(Ops)

Init ==
  /\ pc = "new"
  /\ err = "UNSET"
  /\ svc = NoService
  /\ args = NoArgs
  /\ loc = NoLocals
  /\ heap = {}
  /\ faults = {}
  /\ calls = <<>>
  /\ conc = Idle

-----------------------------------------------------------------------------
(* edgex_device_service_new *)

\* the name looked at before the implementation object
NewErrorNameFirst(name, version, impldata) ==
  IF name = NULL \/ name = "" THEN "NO_DEVICE_NAME"
  ELSE IF impldata = NULL THEN "NO_DEVICE_IMPL"
  ELSE IF version = NULL \/ version = "" THEN "NO_DEVICE_VERSION"
  ELSE "OK"

\* the argument checks, lines 64-84
NewError(name, version, impldata) ==
  IF impldata = NULL THEN "NO_DEVICE_IMPL"
  ELSE IF name = NULL \/ name = "" THEN "NO_DEVICE_NAME"
  ELSE IF version = NULL \/ version = "" THEN "NO_DEVICE_VERSION"
  ELSE "OK"

\* the struct as lines 87-109 leave it
NewService(name, version, impldata) ==
  [alloc |-> "live", name |-> name, version |-> version, userdata |-> impldata,
   logger |-> NULL, daemon |-> NULL, handlers |-> <<>>,
   devices |-> {}, name_to_id |-> {}, profiles |-> {},
   sjobs |-> <<>>, thpool |-> "live", threads |-> POOL_THREADS,
   scheduler |-> "init", schedules |-> <<>>,
   config |-> NoConfig, driver |-> "new"]

edgex_device_service_new ==
  /\ pc = "new"
  /\ \E name \in Names, version \in Versions, impldata \in ImplData :
       LET e == NewError(name, version, impldata) IN
       /\ err' = e
       /\ IF e = "OK"
          THEN /\ svc' = NewService(name, version, impldata)
               /\ heap' = heap \cup {"svc", "thpool", "scheduler"}
               /\ pc' = "idle"
          ELSE /\ svc' = svc
               /\ heap' = heap
               /\ pc' = "no_service"
       /\ calls' = Log("service_new", <<name, version, impldata>>)
  /\ UNCHANGED <<args, loc, faults, conc>>

-----------------------------------------------------------------------------
(* The retry loops: while (!ping (...) && --retries) nanosleep (...);      *)
(*                  if (retries == 0) { ... REMOTE_SERVER_DOWN ... }       *)

\* --retries; overflow of the int (undefined) wraps or saturates
PreDecrement(r) == IF r > IntMin THEN {r - 1} ELSE {IntMax, IntMin}

\* the loop condition after a ping: go round again?
LoopAgain(pong, r) == ~pong /\ r # 0

\* the test after the loop
Exhausted(r) == r = 0

\* retries after one evaluation of the loop condition
RetriesAfter(pong, r) == IF pong THEN {r} ELSE PreDecrement(r)

\* a ping is followed while the loop is bound to end, and MaxPings times when
\* the counter has gone below zero
MayPing == loc.retries > 0 \/ loc.pings < MaxPings

-----------------------------------------------------------------------------
(* startConfigured, lines 151-611, as the sequence of its steps.  A step   *)
(* that succeeds (or has nothing to do) goes on to the next one; a step    *)
(* that fails returns to edgex_device_service_start.                       *)

StartConfiguredSteps ==
  << "validateConfig", "put_config", "ping_data", "ping_metadata",
     "get_deviceservice", "get_addressable", "create_addressable",
     "create_deviceservice", "deviceservice_free",
     "profiles_upload", "devices",
     "rest_server_create", "register_callback",
     "process_configured_devices", "driver_init",
     "register_device", "register_discovery",
     "create_schedules", "create_scheduleevents",
     "get_scheduleevents", "schedule_jobs", "scheduler_start",
     "register_metrics", "register_config", "register_ping",
     "register_service", "startupmsg" >>

\* the callback handler registered only once the driver is initialised
CallbackAfterInit == MovedAfter(StartConfiguredSteps, "register_callback", "driver_init")

\* the ping handler registered with the callback handler
PingWithCallback == MovedAfter(StartConfiguredSteps, "register_ping", "register_callback")

\* the driver initialised once the device and discovery handlers are registered
InitAfterDispatcher == MovedAfter(StartConfiguredSteps, "driver_init", "register_discovery")

\* the service registered with the registry before its ping handler exists
RegisterBeforePing == MovedAfter(StartConfiguredSteps, "register_ping", "register_service")

\* the order in which startConfigured takes its steps
ConfiguredSequence == StartConfiguredSteps

Continue == NextIn(ConfiguredSequence, pc, "start_return")

-----------------------------------------------------------------------------
(* edgex_device_service_start, lines 613-704 *)

\* lines 622-631
service_start ==
  /\ pc = "idle"
  /\ \E url \in RegistryURLs, profile \in Profiles :
       args' = [args EXCEPT !.registryURL = url, !.profile = profile]
  /\ svc' = [svc EXCEPT !.logger = "live"]
  /\ heap' = heap \cup {"logger"}
  /\ err' = "OK"
  /\ loc' = NoLocals
  /\ pc' = "get_registry"
  /\ calls' = <<<<"service_start", <<>>>>>>
  /\ UNCHANGED <<faults, conc>>

\* lines 633-647
get_registry ==
  /\ pc = "get_registry"
  /\ IF args.registryURL = NULL
     THEN /\ pc' = "loadConfig"
          /\ UNCHANGED <<err, loc, heap, calls>>
     ELSE \/ /\ loc' = [loc EXCEPT !.registry = "live", !.retries = RegistryRetries]
             /\ heap' = heap \cup {"registry"}
             /\ pc' = "registry_ping"
             /\ calls' = Log("get_registry", <<>>)
             /\ err' = err
          \/ /\ err' = "INVALID_ARG"
             /\ pc' = "returned"
             /\ calls' = Log("get_registry", <<>>)
             /\ UNCHANGED <<loc, heap>>
  /\ UNCHANGED <<svc, args, faults, conc>>

\* lines 649-659: one ping and what follows it
registry_ping ==
  /\ pc = "registry_ping"
  /\ MayPing
  /\ \E pong \in BOOLEAN : \E r \in RetriesAfter(pong, loc.retries) :
       /\ calls' = LogOnce("registry_ping", <<>>)
       /\ IF LoopAgain(pong, r)
          THEN /\ loc' = [loc EXCEPT !.retries = r, !.pings = @ + 1, !.pong = pong]
               /\ err' = "REGISTRY_PING"
               /\ UNCHANGED <<pc, heap, faults>>
          ELSE IF Exhausted(r)
          THEN /\ err' = "REMOTE_SERVER_DOWN"
               /\ loc' = [loc EXCEPT !.retries = r, !.pings = @ + 1, !.pong = pong,
                                     !.registry = "freed"]
               /\ heap' = FreeHeap(heap, {"registry"})
               /\ faults' = FreeFaults(heap, faults, {"registry"})
               /\ pc' = "returned"
          ELSE /\ err' \in (IF pong THEN ErrAfterSuccess(err) ELSE {"REGISTRY_PING"})
               /\ loc' = [loc EXCEPT !.retries = r, !.pings = @ + 1, !.pong = pong]
               /\ pc' = "get_config"
               /\ UNCHANGED <<heap, faults>>
  /\ UNCHANGED <<svc, args, conc>>

\* lines 661-681
get_config ==
  /\ pc = "get_config"
  /\ calls' = Log("get_config", args.profile)
  /\ \/ \* no configuration in the registry
        /\ loc' = [loc EXCEPT !.uploadConfig = TRUE, !.pings = 0, !.retries = 0, !.pong = FALSE]
        /\ err' = "OK"
        /\ pc' = "loadConfig"
        /\ UNCHANGED <<svc, heap, faults>>
     \/ \* name/value pairs, which edgex_device_populateConfigNV accepts
        \E c \in Configs, e \in ErrAfterSuccess(err) :
          /\ svc' = [svc EXCEPT !.config = c]
          /\ err' = e
          /\ IF e # "OK"
             THEN /\ loc' = [loc EXCEPT !.pings = 0, !.retries = 0, !.pong = FALSE, !.registry = "freed"]
                  /\ heap' = FreeHeap(heap, {"registry"})
                  /\ faults' = FreeFaults(heap, faults, {"registry"})
                  /\ pc' = "returned"
             ELSE /\ loc' = [loc EXCEPT !.pings = 0, !.retries = 0, !.pong = FALSE, !.profile = NULL]
                  /\ pc' = ConfiguredSequence[1]
                  /\ UNCHANGED <<heap, faults>>
     \/ \* name/value pairs, which edgex_device_populateConfigNV rejects
        /\ err' = "BAD_CONFIG"
        /\ loc' = [loc EXCEPT !.pings = 0, !.retries = 0, !.pong = FALSE, !.registry = "freed"]
        /\ heap' = FreeHeap(heap, {"registry"})
        /\ faults' = FreeFaults(heap, faults, {"registry"})
        /\ pc' = "returned"
        /\ svc' = svc
  /\ UNCHANGED <<args, conc>>

\* lines 683-700
loadConfig ==
  /\ pc = "loadConfig"
  /\ calls' = Log("loadConfig", args.profile)
  /\ \/ \* the file cannot be loaded
        /\ err' = "BAD_CONFIG"
        /\ loc' = [loc EXCEPT !.registry = IF @ = NULL THEN NULL ELSE "freed"]
        /\ heap' = FreeHeap(heap, {"registry"} \ (IF loc.registry = NULL THEN {"registry"} ELSE {}))
        /\ faults' = FreeFaults(heap, faults, IF loc.registry = NULL THEN {} ELSE {"registry"})
        /\ pc' = "returned"
        /\ svc' = svc
     \/ \* loaded; edgex_device_populateConfig may report an error, which
        \* line 692 does not look at
        \E c \in Configs, e \in {err, "BAD_CONFIG"} :
          /\ svc' = [svc EXCEPT !.config = c]
          /\ err' = e
          /\ loc' = [loc EXCEPT !.config = "live",
                                !.profile = IF loc.uploadConfig THEN args.profile ELSE NULL]
          /\ heap' = heap \cup {"toml"}
          /\ pc' = ConfiguredSequence[1]
          /\ faults' = faults
  /\ UNCHANGED <<args, conc>>

\* the registry client not freed after startConfigured
start_return_keeps_registry ==
  /\ pc = "start_return"
  /\ LET toks == IF loc.config = NULL THEN {} ELSE {"toml"} IN
       /\ heap' = FreeHeap(heap, toks)
       /\ faults' = FreeFaults(heap, faults, toks)
  /\ loc' = [NoLocals EXCEPT !.created = loc.created]
  /\ pc' = "returned"
  /\ UNCHANGED <<err, svc, args, calls, conc>>

\* lines 702-703, after startConfigured has returned
start_return ==
  /\ pc = "start_return"
  /\ LET toks == (IF loc.registry = NULL THEN {} ELSE {"registry"})
                   \cup (IF loc.config = NULL THEN {} ELSE {"toml"}) IN
       /\ heap' = FreeHeap(heap, toks)
       /\ faults' = FreeFaults(heap, faults, toks)
  /\ loc' = [NoLocals EXCEPT !.created = loc.created]
  /\ pc' = "returned"
  /\ UNCHANGED <<err, svc, args, calls, conc>>

-----------------------------------------------------------------------------
(* startConfigured, lines 151-611 *)

\* lines 160-175
validateConfig ==
  /\ pc = "validateConfig"
  /\ \E e \in {err, "BAD_CONFIG"} :
       /\ err' = e
       /\ pc' = IF e # "OK" THEN "start_return" ELSE Continue
  /\ calls' = Log("validateConfig", <<>>)
  /\ UNCHANGED <<svc, args, loc, heap, faults, conc>>

\* lines 177-201: the upload happens when the profile handed in is not null
put_config ==
  /\ pc = "put_config"
  /\ IF loc.profile # NULL
     THEN /\ calls' = Log("put_config", <<svc.name, loc.profile>>)
          /\ \/ err' = err /\ pc' = Continue
             \/ err' = "REGISTRY_PUT" /\ pc' = "start_return"
     ELSE /\ pc' = Continue
          /\ UNCHANGED <<err, calls>>
  /\ UNCHANGED <<svc, args, loc, heap, faults, conc>>

\* retries and the pings made, on arrival at a loop (lines 205, 223) and inside it
Retries0 == IF loc.step = 0 THEN svc.config.connectretries ELSE loc.retries
Pings0 == IF loc.step = 0 THEN 0 ELSE loc.pings

\* one ping of core-data or core-metadata and what follows it
ClientPing(op, down, reset) ==
  /\ Retries0 > 0 \/ Pings0 < MaxPings
  /\ calls' = LogOnce(op, <<>>)
  /\ \E pong \in BOOLEAN : \E r \in RetriesAfter(pong, Retries0) :
       IF LoopAgain(pong, r)
       THEN /\ loc' = [loc EXCEPT !.retries = r, !.pings = Pings0 + 1, !.pong = pong, !.step = 1]
            /\ err' = down
            /\ pc' = pc
       ELSE /\ loc' = [loc EXCEPT !.retries = r, !.pings = Pings0 + 1, !.pong = pong, !.step = 0]
            /\ IF Exhausted(r)
               THEN err' = "REMOTE_SERVER_DOWN" /\ pc' = "start_return"
               ELSE /\ err' \in (IF reset THEN {"OK"}
                                 ELSE IF pong THEN ErrAfterSuccess(err) ELSE {down})
                    /\ pc' = Continue
  /\ UNCHANGED <<svc, args, heap, faults, conc>>

\* lines 205-221
ping_data ==
  /\ pc = "ping_data"
  /\ ClientPing("ping_data", "DATA_PING", FALSE)

\* lines 223-237
ping_metadata ==
  /\ pc = "ping_metadata"
  /\ ClientPing("ping_metadata", "METADATA_PING", TRUE)

\* lines 241-250
get_deviceservice ==
  /\ pc = "get_deviceservice"
  /\ \/ /\ err' = "HTTP_ERROR" /\ pc' = "start_return"
        /\ loc' = [loc EXCEPT !.pings = 0, !.retries = 0, !.pong = FALSE]
        /\ heap' = heap
        /\ calls' = Log("get_deviceservice", <<svc.name, "error">>)
     \/ /\ loc' = [loc EXCEPT !.ds = NULL, !.pings = 0, !.retries = 0, !.pong = FALSE]
        /\ pc' = Continue
        /\ UNCHANGED <<err, heap>>
        /\ calls' = Log("get_deviceservice", <<svc.name, "none">>)
     \/ /\ loc' = [loc EXCEPT !.ds = "found", !.pings = 0, !.retries = 0, !.pong = FALSE]
        /\ heap' = heap \cup {"ds"}
        /\ calls' = Log("get_deviceservice", <<svc.name, "found">>)
        /\ pc' = Continue
        /\ err' = err
  /\ UNCHANGED <<svc, args, faults, conc>>

\* lines 252-259
get_addressable ==
  /\ pc = "get_addressable"
  /\ IF loc.ds = NULL
     THEN \/ /\ err' = "HTTP_ERROR" /\ pc' = "start_return"
             /\ UNCHANGED <<loc, heap>>
             /\ calls' = Log("get_addressable", <<svc.name, "error">>)
          \/ /\ loc' = [loc EXCEPT !.addr = NULL]
             /\ pc' = Continue
             /\ UNCHANGED <<err, heap>>
             /\ calls' = Log("get_addressable", <<svc.name, "none">>)
          \/ /\ loc' = [loc EXCEPT !.addr = "found"]
             /\ heap' = heap \cup {"addr"}
             /\ calls' = Log("get_addressable", <<svc.name, "found">>)
             /\ pc' = Continue
             /\ err' = err
     ELSE /\ pc' = Continue
          /\ UNCHANGED <<err, loc, heap, calls>>
  /\ UNCHANGED <<svc, args, faults, conc>>

\* svc->config.service.host and svc->config.service.port, which no step changes
ServiceHost == "Service.Host"
ServicePort == "Service.Port"

\* the addressable made with the method of the schedule-event addressables
ServiceAddressableGet ==
  [name |-> svc.name, method |-> "GET", protocol |-> "HTTP",
   address |-> ServiceHost, port |-> ServicePort, path |-> EDGEX_DEV_API_CALLBACK]

\* the addressable of lines 262-270
ServiceAddressable ==
  [name |-> svc.name, method |-> "POST", protocol |-> "HTTP",
   address |-> ServiceHost, port |-> ServicePort, path |-> EDGEX_DEV_API_CALLBACK]

\* lines 260-279
create_addressable ==
  /\ pc = "create_addressable"
  /\ IF loc.ds = NULL /\ loc.addr = NULL
     THEN /\ calls' = Log("create_addressable", ServiceAddressable)
          /\ heap' = heap \cup {"addr"}
          /\ \/ /\ err' = "HTTP_ERROR" /\ pc' = "start_return"
                /\ loc' = [loc EXCEPT !.addr = "made"]
             \/ /\ err' = err /\ pc' = Continue
                /\ loc' = [loc EXCEPT !.addr = "made", !.created = TRUE]
     ELSE /\ pc' = Continue
          /\ UNCHANGED <<err, loc, heap, calls>>
  /\ UNCHANGED <<svc, args, faults, conc>>

\* the device service of lines 281-294
ServiceRecord ==
  [name |-> svc.name, operatingState |-> "ENABLED", adminState |-> "UNLOCKED",
   addressable |-> svc.name]

\* the device service created whatever the lookup found
create_deviceservice_unasked ==
  /\ pc = "create_deviceservice"
  /\ calls' = Log("create_deviceservice", ServiceRecord)
  /\ heap' = heap \cup {"ds"}
  /\ \/ /\ err' = "HTTP_ERROR" /\ pc' = "start_return"
        /\ loc' = [loc EXCEPT !.ds = "made"]
     \/ /\ err' \in {err, "HTTP_CONFLICT"} /\ pc' = Continue
        /\ loc' = [loc EXCEPT !.ds = "made"]
  /\ UNCHANGED <<svc, args, faults, conc>>

\* lines 281-305
create_deviceservice ==
  /\ pc = "create_deviceservice"
  /\ IF loc.ds = NULL
     THEN /\ calls' = Log("create_deviceservice", ServiceRecord)
          /\ heap' = heap \cup {"ds"}
          /\ \/ /\ err' = "HTTP_ERROR" /\ pc' = "start_return"
                /\ loc' = [loc EXCEPT !.ds = "made"]
             \/ /\ err' = err /\ pc' = Continue
                /\ loc' = [loc EXCEPT !.ds = "made", !.created = TRUE]
     ELSE /\ pc' = Continue
          /\ UNCHANGED <<err, loc, heap, calls>>
  /\ UNCHANGED <<svc, args, faults, conc>>

\* line 306: the record, and the addressable line 283 hung on it
deviceservice_free ==
  /\ pc = "deviceservice_free"
  /\ LET toks == (IF loc.ds = NULL THEN {} ELSE {"ds"})
                   \cup (IF loc.ds = "made" THEN {"addr"} ELSE {}) IN
       /\ heap' = FreeHeap(heap, toks)
       /\ faults' = FreeFaults(heap, faults, toks)
  /\ loc' = [loc EXCEPT !.ds = "unset", !.addr = "unset"]
  /\ pc' = Continue
  /\ UNCHANGED <<err, svc, args, calls, conc>>

\* lines 310-314
profiles_upload ==
  /\ pc = "profiles_upload"
  /\ calls' = Log("profiles_upload", <<>>)
  /\ \/ /\ err' = "HTTP_ERROR" /\ pc' = "start_return" /\ svc' = svc
     \/ /\ svc' = [svc EXCEPT !.profiles = {"profile-1"}]
        /\ err' = err /\ pc' = Continue
  /\ UNCHANGED <<args, loc, heap, faults, conc>>

\* lines 318-322
devices ==
  /\ pc = "devices"
  /\ calls' = Log("devices", <<>>)
  /\ \/ /\ err' = "HTTP_ERROR" /\ pc' = "start_return" /\ svc' = svc
     \/ /\ svc' = [svc EXCEPT !.devices = {"id-1"}, !.name_to_id = {<<"device-1", "id-1">>}]
        /\ err' = err /\ pc' = Continue
  /\ UNCHANGED <<args, loc, heap, faults, conc>>

\* lines 326-331
rest_server_create ==
  /\ pc = "rest_server_create"
  /\ calls' = Log("rest_server_create", <<>>)
  /\ \/ /\ err' = "HTTP_SERVER_FAIL" /\ pc' = "start_return"
        /\ UNCHANGED <<svc, heap>>
     \/ /\ svc' = [svc EXCEPT !.daemon = "live"]
        /\ heap' = heap \cup {"daemon"}
        /\ err' = err /\ pc' = Continue
  /\ UNCHANGED <<args, loc, faults, conc>>

\* edgex_rest_server_register_handler (svc->daemon, url, ...)
RegisterHandler(url) ==
  /\ svc' = [svc EXCEPT !.handlers = Append(@, url)]
  /\ calls' = Log("register_handler", url)
  /\ pc' = Continue
  /\ UNCHANGED <<err, args, loc, heap, faults, conc>>

\* lines 333-337
register_callback == pc = "register_callback" /\ RegisterHandler(EDGEX_DEV_API_CALLBACK)

\* the DeviceList processed whether or not a file was read
process_configured_devices_always ==
  /\ pc = "process_configured_devices"
  /\ calls' = Log("process_configured_devices", <<>>)
  /\ \/ err' = "HTTP_ERROR" /\ pc' = "start_return"
     \/ err' = err /\ pc' = Continue
  /\ UNCHANGED <<svc, args, loc, heap, faults, conc>>

\* lines 341-349
process_configured_devices ==
  /\ pc = "process_configured_devices"
  /\ IF loc.config # NULL
     THEN /\ calls' = Log("process_configured_devices", <<>>)
          /\ \/ err' = "HTTP_ERROR" /\ pc' = "start_return"
             \/ err' = err /\ pc' = Continue
     ELSE /\ pc' = Continue
          /\ UNCHANGED <<err, calls>>
  /\ UNCHANGED <<svc, args, loc, heap, faults, conc>>

\* the answer of init not looked at
driver_init_unchecked ==
  /\ pc = "driver_init"
  /\ \E ok \in BOOLEAN :
       /\ calls' = Log("driver_init", ok)
       /\ svc' = [svc EXCEPT !.driver = IF ok THEN "initialised" ELSE "init_failed"]
       /\ err' = err /\ pc' = Continue
  /\ UNCHANGED <<args, loc, heap, faults, conc>>

\* lines 353-358
driver_init ==
  /\ pc = "driver_init"
  /\ \E ok \in BOOLEAN :
       /\ calls' = Log("driver_init", ok)
       /\ svc' = [svc EXCEPT !.driver = IF ok THEN "initialised" ELSE "init_failed"]
       /\ IF ok THEN err' = err /\ pc' = Continue
          ELSE err' = "DRIVER_UNSTART" /\ pc' = "start_return"
  /\ UNCHANGED <<args, loc, heap, faults, conc>>

\* lines 362-366
register_device == pc = "register_device" /\ RegisterHandler(EDGEX_DEV_API_DEVICE)

\* lines 367-371
register_discovery == pc = "register_discovery" /\ RegisterHandler(EDGEX_DEV_API_DISCOVERY)

\* the answers a create in core-metadata can give
CreateAnswers == {"OK", "HTTP_CONFLICT", "HTTP_ERROR"}

\* CONFLICT taken for a failure
OnlySuccessGoesOn(code) == code = "OK"

\* lines 393-405, 441-455, 471-484: success and CONFLICT go on
GoesOn(code) == code = "OK" \/ code = "HTTP_CONFLICT"

\* lines 376-406: one turn of the loop over svc->config.schedules
create_schedules ==
  /\ pc = "create_schedules"
  /\ IF loc.i < svc.config.schedules
     THEN \E code \in CreateAnswers :
            /\ calls' = Log("create_schedule", loc.i + 1)
            /\ err' = code
            /\ IF GoesOn(code)
               THEN /\ loc' = [loc EXCEPT !.i = @ + 1, !.created = @ \/ code = "OK"]
                    /\ pc' = pc
               ELSE loc' = loc /\ pc' = "start_return"
     ELSE /\ loc' = [loc EXCEPT !.i = 0]
          /\ pc' = Continue
          /\ UNCHANGED <<err, calls>>
  /\ UNCHANGED <<svc, args, heap, faults, conc>>

\* #define ADDR_EXT "_addr", line 38
ADDR_EXT == "_addr"

\* the name of the addressable of the schedule-event key (lines 428-430)
EventAddressableName(key) == <<key, ADDR_EXT>>

\* the addressable of lines 427-436
EventAddressable(key, path) ==
  [name |-> EventAddressableName(key), method |-> "GET", protocol |-> "HTTP",
   address |-> ServiceHost, port |-> ServicePort, path |-> path]

\* the arguments of edgex_metadata_client_create_scheduleevent, lines 458-469
EventRecord(key) ==
  [name |-> key, addressable |-> EventAddressableName(key), service |-> svc.name]

\* the two comparisons joined by || instead of &&
InvalidEventPathEither(path) == ~IsDiscoveryPath(path) \/ ~IsDevicePath(path)

\* lines 413-418: the path is neither discovery nor a device command
InvalidEventPath(path) == ~IsDiscoveryPath(path) /\ ~IsDevicePath(path)

\* lines 409-485: one turn of the loop over svc->config.scheduleevents, in
\* its two calls (loc.step 0: the addressable, loc.step 1: the schedule-event)
create_scheduleevents ==
  /\ pc = "create_scheduleevents"
  /\ IF loc.i < Len(svc.config.scheduleevents)
     THEN LET path == svc.config.scheduleevents[loc.i + 1] IN
          IF loc.step = 0
          THEN IF InvalidEventPath(path)
               THEN /\ err' = "BAD_CONFIG"
                    /\ pc' = "start_return"
                    /\ calls' = Log("invalid_event", loc.i + 1)
                    /\ UNCHANGED <<loc, heap, faults>>
               ELSE \E code \in CreateAnswers :
                      /\ calls' = Log("create_event_addressable", EventAddressable(loc.i + 1, path))
                      /\ err' = code
                      /\ faults' = faults
                      /\ IF GoesOn(code)
                         THEN /\ heap' = heap \cup {"addr_name"}
                              /\ loc' = [loc EXCEPT !.step = 1, !.created = @ \/ code = "OK"]
                              /\ pc' = pc
                         ELSE /\ heap' = heap
                              /\ loc' = loc
                              /\ pc' = "start_return"
          ELSE \E code \in CreateAnswers :
                 /\ calls' = Log("create_scheduleevent", EventRecord(loc.i + 1))
                 /\ err' = code
                 /\ heap' = FreeHeap(heap, {"addr_name"})
                 /\ faults' = FreeFaults(heap, faults, {"addr_name"})
                 /\ IF GoesOn(code)
                    THEN /\ loc' = [loc EXCEPT !.i = @ + 1, !.step = 0,
                                                !.created = @ \/ code = "OK"]
                         /\ pc' = pc
                    ELSE loc' = [loc EXCEPT !.step = 0] /\ pc' = "start_return"
     ELSE /\ loc' = [loc EXCEPT !.i = 0]
          /\ pc' = Continue
          /\ UNCHANGED <<err, heap, faults, calls>>
  /\ UNCHANGED <<svc, args, conc>>

\* lines 489-500: the schedule-events core-metadata holds for this service,
\* each with the path of its addressable
get_scheduleevents ==
  /\ pc = "get_scheduleevents"
  /\ \/ /\ err' = "HTTP_ERROR" /\ pc' = "start_return"
        /\ calls' = Log("get_scheduleevents", <<svc.name, <<>>>>)
        /\ UNCHANGED <<loc, heap>>
     \/ \E evs \in MetadataEvents :
          /\ calls' = Log("get_scheduleevents", <<svc.name, evs>>)
          /\ err' = "OK"
          /\ loc' = [loc EXCEPT !.events = evs]
          /\ heap' = IF evs = <<>> THEN heap ELSE heap \cup {"events"}
          /\ pc' = Continue
  /\ UNCHANGED <<svc, args, faults, conc>>

\* intervals, in seconds, that edgex_device_config_parse8601 can give
Intervals == {5, 60}

\* the job records of lines 547-552, live while svc->sjobs is not empty
JobRecords(sjobs) == IF sjobs = <<>> THEN {} ELSE {"sjobs"}

\* lines 502-568: one turn of the loop over the events fetched
schedule_jobs ==
  /\ pc = "schedule_jobs"
  /\ IF loc.events # <<>>
     THEN LET path == Head(loc.events) IN
          \/ \* get_schedule fails (lines 512-521)
             /\ err' = "HTTP_ERROR" /\ pc' = "start_return"
             /\ calls' = Log("get_schedule", <<"error", 0>>)
             /\ UNCHANGED <<svc, loc, heap, faults>>
          \/ \* the frequency does not parse (lines 525-530)
             /\ err' = "BAD_CONFIG" /\ pc' = "start_return"
             /\ calls' = Log("get_schedule", <<"unparsed", 0>>)
             /\ UNCHANGED <<svc, loc, heap, faults>>
          \/ \E interval \in Intervals :
               /\ calls' = Log("get_schedule", <<"ok", interval>>)
               /\ IF IsDiscoveryPath(path)
                  THEN /\ svc' = [svc EXCEPT !.schedules =
                                    Append(@, [fn |-> "do_discovery", arg |-> "svc",
                                               interval |-> interval, repeat |-> 0])]
                       /\ heap' = IF Len(loc.events) = 1 THEN FreeHeap(heap, {"events"}) ELSE heap
                       /\ faults' = FreeFaults(heap, faults, {"events"})
                       /\ loc' = [loc EXCEPT !.events = Tail(@)]
                       /\ UNCHANGED <<err, pc>>
                  ELSE IF IsDevicePath(path)
                  THEN /\ svc' = [svc EXCEPT
                                    !.sjobs = <<DeviceSuffix(path)>> \o @,
                                    !.schedules =
                                      Append(@, [fn |-> "dev_invoker", arg |-> DeviceSuffix(path),
                                                 interval |-> interval, repeat |-> 0])]
                       /\ heap' = (IF Len(loc.events) = 1 THEN FreeHeap(heap, {"events"}) ELSE heap)
                                    \cup {"sjobs"}
                       /\ faults' = FreeFaults(heap, faults, {"events"})
                       /\ loc' = [loc EXCEPT !.events = Tail(@)]
                       /\ UNCHANGED <<err, pc>>
                  ELSE /\ err' = "BAD_CONFIG" /\ pc' = "start_return"
                       /\ UNCHANGED <<svc, loc, heap, faults>>
     ELSE /\ pc' = Continue
          /\ UNCHANGED <<err, svc, loc, heap, faults, calls>>
  /\ UNCHANGED <<args, conc>>

\* line 572
scheduler_start ==
  /\ pc = "scheduler_start"
  /\ svc' = [svc EXCEPT !.scheduler = "started"]
  /\ calls' = Log("scheduler_start", <<>>)
  /\ pc' = Continue
  /\ UNCHANGED <<err, args, loc, heap, faults, conc>>

\* lines 576-579
register_metrics == pc = "register_metrics" /\ RegisterHandler(EDGEX_DEV_API_METRICS)

\* lines 580-583
register_config == pc = "register_config" /\ RegisterHandler(EDGEX_DEV_API_CONFIG)

\* lines 584-587
register_ping == pc = "register_ping" /\ RegisterHandler(EDGEX_DEV_API_PING)

\* lines 589-605
register_service ==
  /\ pc = "register_service"
  /\ IF loc.registry # NULL /\ svc.config.checkinterval # 0
     THEN /\ calls' = Log("register_service", svc.config.checkinterval)
          /\ \/ err' = "REGISTRY_REGISTER" /\ pc' = "start_return"
             \/ err' = err /\ pc' = Continue
     ELSE /\ pc' = Continue
          /\ UNCHANGED <<err, calls>>
  /\ UNCHANGED <<svc, args, loc, heap, faults, conc>>

\* lines 607-611
startupmsg ==
  /\ pc = "startupmsg"
  /\ pc' = Continue
  /\ UNCHANGED <<err, svc, args, loc, heap, faults, calls, conc>>

-----------------------------------------------------------------------------
(* edgex_device_service_stop, lines 743-788, as the sequence of its steps *)

StopSteps ==
  << "scheduler_stop", "rest_server_destroy", "driver_stop", "thpool_destroy",
     "free_sjobs", "freeConfig", "logger_destroy", "free_caches", "free_svc" >>

\* the driver stopped while the HTTP server still runs
DriverStopFirst == MovedAfter(StopSteps, "rest_server_destroy", "driver_stop")

\* the worker pool destroyed while the HTTP server still runs
PoolBeforeServer == MovedAfter(StopSteps, "rest_server_destroy", "thpool_destroy")

\* the order in which edgex_device_service_stop takes its steps
StopSequence == StopSteps

StopContinue == NextIn(StopSequence, pc, "stopped")

\* iot_scheduler_stop returns once the jobs in flight have ended
SchedulerDrained == conc.firings = 0

\* edgex_rest_server_destroy returns once the requests in flight are answered
ServerQuiesced == conc.requests = 0

\* lines 743-747
service_stop ==
  /\ pc \in {"idle", "returned"}
  /\ \E force \in BOOLEAN :
       args' = [args EXCEPT !.force = force,
                            !.started = IF pc = "returned" THEN err ELSE "UNSET"]
  /\ err' = "OK"
  /\ pc' = StopSequence[1]
  /\ calls' = <<<<"service_stop", <<>>>>>>
  /\ UNCHANGED <<svc, loc, heap, faults, conc>>

\* lines 748-752
scheduler_stop ==
  /\ pc = "scheduler_stop"
  /\ IF svc.scheduler # NULL
     THEN /\ SchedulerDrained
          /\ svc' = [svc EXCEPT !.scheduler = "finalised", !.schedules = <<>>]
          /\ heap' = FreeHeap(heap, {"scheduler"})
          /\ faults' = FreeFaults(heap, faults, {"scheduler"})
          /\ calls' = Log("scheduler_stop", <<>>)
     ELSE UNCHANGED <<svc, heap, faults, calls>>
  /\ pc' = StopContinue
  /\ UNCHANGED <<err, args, loc, conc>>

\* lines 753-756
rest_server_destroy ==
  /\ pc = "rest_server_destroy"
  /\ IF svc.daemon # NULL
     THEN /\ ServerQuiesced
          /\ svc' = [svc EXCEPT !.daemon = "destroyed"]
          /\ heap' = FreeHeap(heap, {"daemon"})
          /\ faults' = FreeFaults(heap, faults, {"daemon"})
          /\ calls' = Log("rest_server_destroy", <<>>)
     ELSE UNCHANGED <<svc, heap, faults, calls>>
  /\ pc' = StopContinue
  /\ UNCHANGED <<err, args, loc, conc>>

\* the driver stopped only if it was initialised
driver_stop_if_initialised ==
  /\ pc = "driver_stop"
  /\ IF svc.driver = "initialised"
     THEN /\ svc' = [svc EXCEPT !.driver = "stopped"]
          /\ calls' = Log("driver_stop", args.force)
     ELSE UNCHANGED <<svc, calls>>
  /\ pc' = StopContinue
  /\ UNCHANGED <<err, args, loc, heap, faults, conc>>

\* line 757
driver_stop ==
  /\ pc = "driver_stop"
  /\ svc' = [svc EXCEPT !.driver = "stopped"]
  /\ calls' = Log("driver_stop", args.force)
  /\ pc' = StopContinue
  /\ UNCHANGED <<err, args, loc, heap, faults, conc>>

\* line 758
thpool_destroy ==
  /\ pc = "thpool_destroy"
  /\ svc' = [svc EXCEPT !.thpool = "destroyed"]
  /\ heap' = FreeHeap(heap, {"thpool"})
  /\ faults' = FreeFaults(heap, faults, {"thpool"})
  /\ calls' = Log("thpool_destroy", <<>>)
  /\ pc' = StopContinue
  /\ UNCHANGED <<err, args, loc, conc>>

\* lines 760-767
free_sjobs ==
  /\ pc = "free_sjobs"
  /\ LET toks == JobRecords(svc.sjobs) IN
       /\ heap' = FreeHeap(heap, toks)
       /\ faults' = FreeFaults(heap, faults, toks)
  /\ svc' = [svc EXCEPT !.sjobs = <<>>]
  /\ calls' = Log("free_sjobs", <<>>)
  /\ pc' = StopContinue
  /\ UNCHANGED <<err, args, loc, conc>>

\* line 768
freeConfig ==
  /\ pc = "freeConfig"
  /\ svc' = [svc EXCEPT !.config = NoConfig]
  /\ calls' = Log("freeConfig", <<>>)
  /\ pc' = StopContinue
  /\ UNCHANGED <<err, args, loc, heap, faults, conc>>

\* line 769
logger_destroy ==
  /\ pc = "logger_destroy"
  /\ LET toks == IF svc.logger = NULL THEN {} ELSE {"logger"} IN
       /\ heap' = FreeHeap(heap, toks)
       /\ faults' = FreeFaults(heap, faults, toks)
  /\ svc' = [svc EXCEPT !.logger = IF @ = NULL THEN NULL ELSE "destroyed"]
  /\ calls' = Log("logger_destroy", <<>>)
  /\ pc' = StopContinue
  /\ UNCHANGED <<err, args, loc, conc>>

\* lines 770-786
free_caches ==
  /\ pc = "free_caches"
  /\ svc' = [svc EXCEPT !.devices = {}, !.name_to_id = {}, !.profiles = {}]
  /\ calls' = Log("free_caches", <<>>)
  /\ pc' = StopContinue
  /\ UNCHANGED <<err, args, loc, heap, faults, conc>>

\* line 787
free_svc ==
  /\ pc = "free_svc"
  /\ svc' = [svc EXCEPT !.alloc = "freed"]
  /\ heap' = FreeHeap(heap, {"svc"})
  /\ faults' = FreeFaults(heap, faults, {"svc"})
  /\ calls' = Log("free_svc", <<>>)
  /\ pc' = StopContinue
  /\ UNCHANGED <<err, args, loc, conc>>

-----------------------------------------------------------------------------
(* The other threads: HTTP-server threads in the device handler, the       *)
(* scheduler thread, and the worker pool.                                  *)

\* thpool_add_work (svc->thpool, doPost, pp), line 739
Submit(c) ==
  IF svc.thpool = "live"
  THEN [c EXCEPT !.queue = @ + 1]
  ELSE [c EXCEPT !.deadSubmit = TRUE]

MaySubmit == svc.thpool # "live" \/ conc.queue < MaxQueue

\* a request for /api/v1/device/... arrives and its handler starts
http_request ==
  /\ svc.alloc = "live"
  /\ svc.daemon = "live"
  /\ EDGEX_DEV_API_DEVICE \in Range(svc.handlers)
  /\ conc.requests < MaxRequests
  /\ conc' = [conc EXCEPT !.requests = @ + 1]
  /\ UNCHANGED <<pc, err, svc, args, loc, heap, faults, calls>>

\* the handler answers; a GET that produced readings has posted them
\* (edgex_device_post_readings, lines 722-741)
http_reply ==
  /\ conc.requests > 0
  /\ \/ conc' = [conc EXCEPT !.requests = @ - 1]
     \/ /\ MaySubmit
        /\ conc' = [Submit(conc) EXCEPT !.requests = @ - 1]
  /\ UNCHANGED <<pc, err, svc, args, loc, heap, faults, calls>>

\* the scheduler thread finds a job due and hands it to the worker pool
scheduler_fire ==
  /\ svc.alloc = "live"
  /\ svc.scheduler = "started"
  /\ svc.schedules # <<>>
  /\ conc.firings < MaxFirings
  /\ conc' = IF svc.thpool = "live"
             THEN [conc EXCEPT !.firings = @ + 1]
             ELSE [conc EXCEPT !.deadSubmit = TRUE]
  /\ UNCHANGED <<pc, err, svc, args, loc, heap, faults, calls>>

\* the job (dev_invoker, lines 129-149, or discovery) ends; a device read
\* that produced readings has posted them
job_done ==
  /\ conc.firings > 0
  /\ \/ conc' = [conc EXCEPT !.firings = @ - 1]
     \/ /\ MaySubmit
        /\ conc' = [Submit(conc) EXCEPT !.firings = @ - 1]
  /\ UNCHANGED <<pc, err, svc, args, loc, heap, faults, calls>>

\* a worker runs doPost (lines 706-720)
doPost ==
  /\ svc.alloc = "live"
  /\ svc.thpool = "live"
  /\ conc.queue > 0
  /\ conc' = [conc EXCEPT !.queue = @ - 1]
  /\ UNCHANGED <<pc, err, svc, args, loc, heap, faults, calls>>

-----------------------------------------------------------------------------

\* the main thread: the application calling new, start and stop
MainThread ==
  \/ edgex_device_service_new
  \/ service_start
  \/ get_registry
  \/ registry_ping
  \/ get_config
  \/ loadConfig
  \/ start_return
  \/ validateConfig
  \/ put_config
  \/ ping_data
  \/ ping_metadata
  \/ get_deviceservice
  \/ get_addressable
  \/ create_addressable
  \/ create_deviceservice
  \/ deviceservice_free
  \/ profiles_upload
  \/ devices
  \/ rest_server_create
  \/ register_callback
  \/ process_configured_devices
  \/ driver_init
  \/ register_device
  \/ register_discovery
  \/ create_schedules
  \/ create_scheduleevents
  \/ get_scheduleevents
  \/ schedule_jobs
  \/ scheduler_start
  \/ register_metrics
  \/ register_config
  \/ register_ping
  \/ register_service
  \/ startupmsg
  \/ service_stop
  \/ scheduler_stop
  \/ rest_server_destroy
  \/ driver_stop
  \/ thpool_destroy
  \/ free_sjobs
  \/ freeConfig
  \/ logger_destroy
  \/ free_caches
  \/ free_svc

\* the HTTP-server threads, the scheduler thread and the pool's workers
OtherThreads ==
  \/ http_request
  \/ http_reply
  \/ scheduler_fire
  \/ job_done
  \/ doPost

Next == MainThread \/ OtherThreads

\* every thread
Spec == Init /\ [][Next]_vars

\* the main thread alone, the service receiving no request and no job coming due
SpecMain == Init /\ [][MainThread]_vars

-----------------------------------------------------------------------------
(* The other threads step by step, from a service that has started.        *)

MaxPosts == 3
MaxFired == 2

\* the service as a successful edgex_device_service_start leaves it: found
\* in core-metadata, one device-URL job and one discovery job scheduled
StartedService ==
  [alloc |-> "live", name |-> "device-x", version |-> "1.0", userdata |-> "impl",
   config |-> [connectretries |-> 1, checkinterval |-> 0, schedules |-> 0,
               scheduleevents |-> <<>>],
   logger |-> "live", daemon |-> "live",
   handlers |-> << EDGEX_DEV_API_CALLBACK, EDGEX_DEV_API_DEVICE,
                   EDGEX_DEV_API_DISCOVERY, EDGEX_DEV_API_METRICS,
                   EDGEX_DEV_API_CONFIG, EDGEX_DEV_API_PING >>,
   devices |-> {"id-1"}, name_to_id |-> {<<"device-1", "id-1">>},
   profiles |-> {"profile-1"},
   sjobs |-> << DeviceSuffix(DeviceCommandPath) >>,
   schedules |-> << [fn |-> "dev_invoker", arg |-> DeviceSuffix(DeviceCommandPath),
                     interval |-> 5, repeat |-> 0],
                    [fn |-> "do_discovery", arg |-> "svc",
                     interval |-> 60, repeat |-> 0] >>,
   thpool |-> "live", threads |-> POOL_THREADS, scheduler |-> "started",
   driver |-> "initialised"]

\* the collaborator calls of that start
StartedCalls ==
  << <<"service_start", <<>>>>,
     <<"loadConfig", NULL>>,
     <<"validateConfig", <<>>>>,
     <<"ping_data", <<>>>>,
     <<"ping_metadata", <<>>>>,
     <<"get_deviceservice", <<"device-x", "found">>>>,
     <<"profiles_upload", <<>>>>,
     <<"devices", <<>>>>,
     <<"rest_server_create", <<>>>>,
     <<"register_handler", EDGEX_DEV_API_CALLBACK>>,
     <<"process_configured_devices", <<>>>>,
     <<"driver_init", TRUE>>,
     <<"register_handler", EDGEX_DEV_API_DEVICE>>,
     <<"register_handler", EDGEX_DEV_API_DISCOVERY>>,
     <<"get_scheduleevents", <<"device-x", <<DeviceCommandPath, EDGEX_DEV_API_DISCOVERY>>>>>>,
     <<"get_schedule", <<"ok", 5>>>>,
     <<"get_schedule", <<"ok", 60>>>>,
     <<"scheduler_start", <<>>>>,
     <<"register_handler", EDGEX_DEV_API_METRICS>>,
     <<"register_handler", EDGEX_DEV_API_CONFIG>>,
     <<"register_handler", EDGEX_DEV_API_PING>> >>

InitRun ==
  /\ pc = "returned"
  /\ err = "OK"
  /\ svc = StartedService
  /\ args = NoArgs
  /\ loc = NoLocals
  /\ heap = {"svc", "logger", "daemon", "sjobs", "thpool", "scheduler"}
  /\ faults = {}
  /\ calls = StartedCalls
  /\ conc = Idle

\* edgex_device_service_stop, called by the application once
StopThread ==
  \/ service_stop
  \/ scheduler_stop
  \/ rest_server_destroy
  \/ driver_stop
  \/ thpool_destroy
  \/ free_sjobs
  \/ freeConfig
  \/ logger_destroy
  \/ free_caches
  \/ free_svc

\* free (p): a block that is not live is freed in error
Freed(block) == IF block = "live" THEN "freed" ELSE "fault"

\* what edgex_data_generate_event answers: an event, or NULL
GeneratedEvents == {"live", NULL}

\* lines 735-739: the parameter block made for an event and handed to the pool
QueuedPost ==
  [jevent |-> "live", pp |-> "live", stage |-> "queued", adds |-> 0, result |-> "none"]

\* line 733 false: no event, nothing made and nothing handed over
NoPost ==
  [jevent |-> NULL, pp |-> NULL, stage |-> "none", adds |-> 0, result |-> "none"]

\* a device handler that has a request in hand answers it
http_answer ==
  /\ conc.requests > 0
  /\ conc' = [conc EXCEPT !.requests = @ - 1]
  /\ UNCHANGED <<pc, err, svc, args, loc, heap, faults, calls>>

\* lines 722-741, called by a device handler that has read a device
edgex_device_post_readings ==
  /\ svc.alloc = "live"
  /\ conc.requests > 0
  /\ Len(conc.posts) < MaxPosts
  /\ \E jevent \in GeneratedEvents :
       IF jevent # NULL
       THEN /\ MaySubmit
            /\ conc' = [Submit(conc) EXCEPT !.posts = Append(@, QueuedPost)]
       ELSE conc' = [conc EXCEPT !.posts = Append(@, NoPost)]
  /\ UNCHANGED <<pc, err, svc, args, loc, heap, faults, calls>>

\* what add_event leaves in err
PostResults == {"ok", "failed"}

\* lines 708-717: a worker takes the job and calls add_event
doPost_add_event(p) ==
  /\ svc.alloc = "live"
  /\ svc.thpool = "live"
  /\ p \in DOMAIN conc.posts
  /\ conc.posts[p].stage = "queued"
  /\ \E r \in PostResults :
       conc' = [conc EXCEPT !.queue = @ - 1,
                            !.posts[p] = [@ EXCEPT !.stage = "running",
                                                   !.adds = @ + 1,
                                                   !.result = r]]
  /\ UNCHANGED <<pc, err, svc, args, loc, heap, faults, calls>>

\* the event and its block freed only when the POST went through
doPost_free_on_success(p) ==
  /\ p \in DOMAIN conc.posts
  /\ conc.posts[p].stage = "running"
  /\ conc' = [conc EXCEPT !.posts[p] =
                IF @.result = "ok"
                THEN [@ EXCEPT !.stage = "done", !.jevent = Freed(@), !.pp = Freed(@)]
                ELSE [@ EXCEPT !.stage = "done"]]
  /\ UNCHANGED <<pc, err, svc, args, loc, heap, faults, calls>>

\* a failed POST handed back to the pool
doPost_retry(p) ==
  /\ p \in DOMAIN conc.posts
  /\ conc.posts[p].stage = "running"
  /\ conc' = IF conc.posts[p].result = "failed"
             THEN [conc EXCEPT !.queue = @ + 1, !.posts[p].stage = "queued"]
             ELSE [conc EXCEPT !.posts[p] =
                     [@ EXCEPT !.stage = "done", !.jevent = Freed(@), !.pp = Freed(@)]]
  /\ UNCHANGED <<pc, err, svc, args, loc, heap, faults, calls>>

\* lines 718-719: the worker frees the event and the block, and the job ends
doPost_free(p) ==
  /\ p \in DOMAIN conc.posts
  /\ conc.posts[p].stage = "running"
  /\ conc' = [conc EXCEPT !.posts[p] =
                [@ EXCEPT !.stage = "done", !.jevent = Freed(@), !.pp = Freed(@)]]
  /\ UNCHANGED <<pc, err, svc, args, loc, heap, faults, calls>>

\* the device handlers and the pool's workers, posting readings
PostThreads ==
  \/ http_request
  \/ http_answer
  \/ edgex_device_post_readings
  \/ \E p \in 1..MaxPosts : doPost_add_event(p)
  \/ \E p \in 1..MaxPosts : doPost_free(p)

NextPost == StopThread \/ PostThreads

\* a started service answering requests and posting readings, until stopped
SpecPost == InitRun /\ [][NextPost]_vars

MHD_HTTP_OK == 200

\* the statuses edgex_device_handler_device answers a GET with: success, no
\* such device, device locked, device disabled, driver or transform failure
DispatcherStatuses == {MHD_HTTP_OK, 404, 423, 503, 500}

\* only the failures of the server side logged
LogsServerError(rc) == rc >= 500

\* line 139: if (rc != MHD_HTTP_OK)
LogsError(rc) == rc # MHD_HTTP_OK

\* a job of the scheduler, handed to the pool and not yet run
Due(k) ==
  [job |-> k, fn |-> svc.schedules[k].fn, stage |-> "due", gets |-> <<>>,
   rc |-> 0, logged |-> FALSE]

\* the scheduler thread finds job k due and hands it to the worker pool; the
\* jobs are created with a repeat count of 0 (lines 534-554) and stay scheduled
schedule_due(k) ==
  /\ svc.alloc = "live"
  /\ svc.scheduler = "started"
  /\ svc.thpool = "live"
  /\ k \in DOMAIN svc.schedules
  /\ conc.firings < MaxFirings
  /\ Len(conc.fired) < MaxFired
  /\ conc' = [conc EXCEPT !.firings = @ + 1, !.fired = Append(@, Due(k))]
  /\ UNCHANGED <<pc, err, svc, args, loc, heap, faults, calls>>

\* lines 129-137: the worker enters dev_invoker, which asks the dispatcher
\* for job->url
dev_invoker(f) ==
  /\ f \in DOMAIN conc.fired
  /\ conc.fired[f].stage = "due"
  /\ conc.fired[f].fn = "dev_invoker"
  /\ conc.fired[f].job \in DOMAIN svc.schedules
  /\ conc' = [conc EXCEPT !.fired[f] =
                [@ EXCEPT !.stage = "get",
                          !.gets = Append(@, <<"GET", svc.schedules[conc.fired[f].job].arg>>)]]
  /\ UNCHANGED <<pc, err, svc, args, loc, heap, faults, calls>>

\* the job of a failed request taken off the schedule
dev_invoker_drop(f) ==
  /\ f \in DOMAIN conc.fired
  /\ conc.fired[f].stage = "get"
  /\ \E rc \in DispatcherStatuses :
       /\ conc' = [conc EXCEPT !.firings = @ - 1,
                               !.fired[f] = [@ EXCEPT !.stage = "done", !.rc = rc,
                                                      !.logged = LogsError(rc)]]
       /\ svc' = IF LogsError(rc)
                 THEN [svc EXCEPT !.schedules = SubSeq(@, 1, conc.fired[f].job - 1)
                                                 \o SubSeq(@, conc.fired[f].job + 1, Len(@))]
                 ELSE svc
  /\ UNCHANGED <<pc, err, args, loc, heap, faults, calls>>

\* lines 139-148: the dispatcher has answered; dev_invoker logs and returns
dev_invoker_return(f) ==
  /\ f \in DOMAIN conc.fired
  /\ conc.fired[f].stage = "get"
  /\ \E rc \in DispatcherStatuses :
       conc' = [conc EXCEPT !.firings = @ - 1,
                            !.fired[f] = [@ EXCEPT !.stage = "done", !.rc = rc,
                                                   !.logged = LogsError(rc)]]
  /\ UNCHANGED <<pc, err, svc, args, loc, heap, faults, calls>>

\* line 537: the worker runs the discovery job
edgex_device_handler_do_discovery(f) ==
  /\ f \in DOMAIN conc.fired
  /\ conc.fired[f].stage = "due"
  /\ conc.fired[f].fn = "do_discovery"
  /\ conc' = [conc EXCEPT !.firings = @ - 1, !.fired[f].stage = "done"]
  /\ UNCHANGED <<pc, err, svc, args, loc, heap, faults, calls>>

\* the scheduler thread and the workers running its jobs
JobThreads ==
  \/ \E k \in 1..Len(StartedService.schedules) : schedule_due(k)
  \/ \E f \in 1..MaxFired : dev_invoker(f)
  \/ \E f \in 1..MaxFired : dev_invoker_return(f)
  \/ \E f \in 1..MaxFired : edgex_device_handler_do_discovery(f)

NextJobs == StopThread \/ JobThreads

\* a started service running its scheduled jobs, until stopped
SpecJobs == InitRun /\ [][NextJobs]_vars

MaxReaders == 4
MaxWriters == 3

\* the C library the service is built against: glibc, whose headers define
\* __GLIBC_PREREQ, or another one (musl), whose headers do not
Builds == {"glibc", "other"}

\* lines 93-102: the kind is set inside #ifdef __GLIBC_PREREQ only
RwlockKind(build) ==
  IF build = "glibc" THEN "PREFER_WRITER_NONRECURSIVE" ELSE "DEFAULT"

\* line 102: pthread_rwlock_init (&result->deviceslock, &rwatt)
NewLock(build) == [NoLock EXCEPT !.kind = RwlockKind(build)]

InitLock ==
  /\ pc = "returned"
  /\ err = "OK"
  /\ svc = StartedService
  /\ args = NoArgs
  /\ loc = NoLocals
  /\ heap = {"svc", "logger", "daemon", "sjobs", "thpool", "scheduler"}
  /\ faults = {}
  /\ calls = StartedCalls
  /\ \E build \in Builds : conc = [Idle EXCEPT !.lock = NewLock(build)]

\* whether pthread_rwlock_rdlock lets a reader in: never while a writer holds
\* the lock; with the writer-preferring kind not while a writer waits; with
\* the default kind a reader may or may not pass the writers that wait
Admits(l) ==
  IF l.writer THEN {FALSE}
  ELSE IF l.wwait = 0 THEN {TRUE}
  ELSE IF l.kind = "PREFER_WRITER_NONRECURSIVE" THEN {FALSE}
  ELSE BOOLEAN

\* a device handler (a GET of one device or of all) asks for the read lock
rdlock ==
  /\ svc.alloc = "live"
  /\ conc.lock.readers + conc.lock.rwait < MaxReaders
  /\ \E in \in Admits(conc.lock) :
       conc' = IF in THEN [conc EXCEPT !.lock.readers = @ + 1]
                     ELSE [conc EXCEPT !.lock.rwait = @ + 1]
  /\ UNCHANGED <<pc, err, svc, args, loc, heap, faults, calls>>

\* a reader that waited is let in
rdlock_wake ==
  /\ conc.lock.rwait > 0
  /\ TRUE \in Admits(conc.lock)
  /\ conc' = [conc EXCEPT !.lock.rwait = @ - 1, !.lock.readers = @ + 1]
  /\ UNCHANGED <<pc, err, svc, args, loc, heap, faults, calls>>

\* a reader leaves
rd_unlock ==
  /\ conc.lock.readers > 0
  /\ conc' = [conc EXCEPT !.lock.readers = @ - 1]
  /\ UNCHANGED <<pc, err, svc, args, loc, heap, faults, calls>>

LockFree(l) == l.readers = 0 /\ ~l.writer

\* a callback or a discovery asks for the write lock
wrlock ==
  /\ svc.alloc = "live"
  /\ conc.lock.wwait + (IF conc.lock.writer THEN 1 ELSE 0) < MaxWriters
  /\ conc' = IF LockFree(conc.lock)
             THEN [conc EXCEPT !.lock.writer = TRUE]
             ELSE [conc EXCEPT !.lock.wwait = @ + 1]
  /\ UNCHANGED <<pc, err, svc, args, loc, heap, faults, calls>>

\* a writer that waited gets the lock
wrlock_wake ==
  /\ conc.lock.wwait > 0
  /\ LockFree(conc.lock)
  /\ conc' = [conc EXCEPT !.lock.wwait = @ - 1, !.lock.writer = TRUE]
  /\ UNCHANGED <<pc, err, svc, args, loc, heap, faults, calls>>

\* the writer leaves
wr_unlock ==
  /\ conc.lock.writer
  /\ conc' = [conc EXCEPT !.lock.writer = FALSE]
  /\ UNCHANGED <<pc, err, svc, args, loc, heap, faults, calls>>

\* the threads that read and change the device cache
NextLock ==
  \/ rdlock
  \/ rdlock_wake
  \/ rd_unlock
  \/ wrlock
  \/ wrlock_wake
  \/ wr_unlock

\* a started service, in either build, its device cache read and changed
SpecLock == InitLock /\ [][NextLock]_vars

\* the methods, URLs and bodies a request can come with
Methods == {"GET", "PUT", "POST", "DELETE"}
RequestURLs == {EDGEX_DEV_API_PING, <<"api", "v1", "ping", "x">>, <<>>}
UploadData == {"", "{}", "pong"}

\* answers GET alone
ping_handler_get_only(url, method, upload_data) ==
  IF method = "GET"
  THEN [status |-> MHD_HTTP_OK, reply |-> "{\"value\":\"pong\"}\n",
        reply_type |-> "application/json"]
  ELSE [status |-> 405, reply |-> NULL, reply_type |-> NULL]

\* lines 113-127: what ping_handler returns and leaves in *reply, *reply_type
ping_handler(url, method, upload_data) ==
  [status |-> MHD_HTTP_OK, reply |-> "{\"value\":\"pong\"}\n",
   reply_type |-> "application/json"]

\* the HTTP server hands a request to ping_handler
ping_request ==
  /\ svc.alloc = "live"
  /\ svc.daemon = "live"
  /\ EDGEX_DEV_API_PING \in Range(svc.handlers)
  /\ conc.requests < MaxRequests
  /\ \E url \in RequestURLs, method \in Methods, upload_data \in UploadData :
       conc' = [conc EXCEPT !.requests = @ + 1,
                            !.ping = [NoPing EXCEPT !.stage = "in", !.url = url,
                                                    !.method = method,
                                                    !.upload_data = upload_data]]
  /\ UNCHANGED <<pc, err, svc, args, loc, heap, faults, calls>>

\* ping_handler runs and the server sends what it returned
ping_answer ==
  /\ conc.ping.stage = "in"
  /\ LET r == ping_handler(conc.ping.url, conc.ping.method, conc.ping.upload_data) IN
       conc' = [conc EXCEPT !.requests = @ - 1,
                            !.ping = [@ EXCEPT !.stage = "answered",
                                               !.status = r.status,
                                               !.reply = r.reply,
                                               !.reply_type = r.reply_type]]
  /\ UNCHANGED <<pc, err, svc, args, loc, heap, faults, calls>>

NextPing == StopThread \/ ping_request \/ ping_answer

\* a started service answering pings, until stopped
SpecPing == InitRun /\ [][NextPing]_vars

-----------------------------------------------------------------------------
(* Reading the log of calls *)

\* position of the first call of op, of the first entry e; 0 when there is none
FirstCall(op) == IndexOf(Ops, op)
FirstEntry(e) == IndexOf(calls, e)
FirstHandler(url) == FirstEntry(<<"register_handler", url>>)

\* x happened, and y (if it happened) only after it
Precedes(x, y) == x > 0 /\ (y = 0 \/ x < y)

InStart == calls # <<>> /\ calls[1][1] = "service_start"
InStop == calls # <<>> /\ calls[1][1] = "service_stop"
LastCall == IF calls = <<>> THEN "none" ELSE calls[Len(calls)][1]

IsPrefix(s, t) == Len(s) <= Len(t) /\ s = SubSeq(t, 1, Len(s))

InConfigured == pc \in Range(ConfiguredSequence) \cup {"start_return"}

-----------------------------------------------------------------------------
(* Claims *)

\* the teardown of the claim C1, with and without an HTTP server
Teardown(server) ==
  <<"service_stop", "scheduler_stop">>
    \o (IF server THEN <<"rest_server_destroy">> ELSE <<>>)
    \o <<"driver_stop", "thpool_destroy", "free_sjobs", "freeConfig",
         "logger_destroy", "free_caches", "free_svc">>

\* C1: every call of edgex_device_service_stop goes through its teardown in
\* one order: scheduler stopped and finalised, HTTP server destroyed (when
\* there is one), driver stop, worker pool destroyed, job records freed,
\* config, logger and caches freed, the service struct freed last; the
\* driver's stop is given the caller's force flag.  At every
\* moment the steps taken are an initial part of that order, and a finished
\* stop has taken them all.
C1_TeardownOrder ==
  InStop =>
    /\ IsPrefix(Ops, Teardown(svc.daemon # NULL))
    /\ pc = "stopped" => Ops = Teardown(svc.daemon # NULL)
    /\ Called("driver_stop") => <<"driver_stop", args.force>> \in Range(calls)

C1_Witness ==
  /\ pc = "stopped"
  /\ svc.daemon = "destroyed"
  /\ <<"driver_stop", TRUE>> \in Range(calls)

\* C2: no request handler and no scheduled job hands work to the worker pool,
\* or is still running, once thpool_destroy has been called: by then the
\* scheduler is stopped and the HTTP server, if any, destroyed.
C2_NoWorkIntoDeadPool ==
  /\ ~conc.deadSubmit
  /\ (svc.alloc # "none" /\ svc.thpool = "destroyed") =>
       /\ conc.requests = 0
       /\ conc.firings = 0
       /\ svc.scheduler = "finalised"
       /\ svc.daemon # "live"

C2_Witness ==
  /\ svc.alloc # "none"
  /\ svc.thpool = "destroyed"
  /\ svc.daemon = "destroyed"
  /\ svc.sjobs # <<>>
  /\ conc.queue > 0

\* the calls that reconcile core-metadata at the start of startConfigured
ReconciliationOps == {"get_deviceservice", "profiles_upload", "devices"}

\* C3 as claimed: the callback handler is registered before the device
\* service is looked up, before the profiles are uploaded and before the
\* devices are loaded from core-metadata.
C3_CallbackBeforeReconciliation ==
  InStart =>
    \A op \in ReconciliationOps :
      FirstCall(op) > 0 => Precedes(FirstHandler(EDGEX_DEV_API_CALLBACK), FirstCall(op))

\* what startConfigured does once the callback handler is registered
AfterCallbackOps ==
  {"process_configured_devices", "driver_init", "create_schedule",
   "create_event_addressable", "create_scheduleevent", "get_scheduleevents",
   "scheduler_start", "register_service"}

\* C3 as amended: the callback handler is registered after the device
\* service has been looked up, the profiles uploaded, the devices loaded from
\* core-metadata and the REST server created, and before the configured
\* devices are processed, the driver is initialised and the schedules and
\* schedule-events are reconciled.
C3_CallbackAfterLoad ==
  InStart =>
    /\ FirstHandler(EDGEX_DEV_API_CALLBACK) > 0 =>
         \A op \in ReconciliationOps \cup {"rest_server_create"} :
           Precedes(FirstCall(op), FirstHandler(EDGEX_DEV_API_CALLBACK))
    /\ \A op \in AfterCallbackOps :
         FirstCall(op) > 0 => Precedes(FirstHandler(EDGEX_DEV_API_CALLBACK), FirstCall(op))

C3_Witness ==
  /\ InStart
  /\ FirstHandler(EDGEX_DEV_API_CALLBACK) > 0
  /\ Called("driver_init")
  /\ Called("create_scheduleevent")

\* the order of the claim C4
HandlerOrder ==
  << EDGEX_DEV_API_CALLBACK, EDGEX_DEV_API_DEVICE, EDGEX_DEV_API_DISCOVERY,
     EDGEX_DEV_API_METRICS, EDGEX_DEV_API_CONFIG, EDGEX_DEV_API_PING >>

AuxiliaryHandlers == {EDGEX_DEV_API_METRICS, EDGEX_DEV_API_CONFIG, EDGEX_DEV_API_PING}

\* C4: the handlers are registered in the order callback, device, discovery,
\* metrics, config, ping, and metrics, config and ping only after the
\* driver's init has returned true and the scheduler has been started.
C4_HandlerOrder ==
  InStart =>
    /\ IsPrefix(svc.handlers, HandlerOrder)
    /\ \A url \in AuxiliaryHandlers :
         FirstHandler(url) > 0 =>
           /\ Precedes(FirstEntry(<<"driver_init", TRUE>>), FirstHandler(url))
           /\ Precedes(FirstCall("scheduler_start"), FirstHandler(url))

C4_Witness ==
  /\ InStart
  /\ svc.handlers = HandlerOrder
  /\ pc = "returned"

\* C5 as claimed: the device and discovery handlers are registered before the
\* driver's init is called, and the scheduler is populated and started only
\* after it.
C5_DispatcherBeforeInit ==
  InStart =>
    /\ Called("driver_init") =>
         /\ Precedes(FirstHandler(EDGEX_DEV_API_DEVICE), FirstCall("driver_init"))
         /\ Precedes(FirstHandler(EDGEX_DEV_API_DISCOVERY), FirstCall("driver_init"))
    /\ \A op \in {"get_scheduleevents", "scheduler_start"} :
         FirstCall(op) > 0 => Precedes(FirstCall("driver_init"), FirstCall(op))

\* C5 as amended: the device and discovery handlers are registered only after
\* the driver's init has been called and has returned true, and the scheduler
\* is populated and started only after the driver's init and after these two
\* handlers are registered.
C5_DispatcherAfterInit ==
  InStart =>
    /\ \A url \in {EDGEX_DEV_API_DEVICE, EDGEX_DEV_API_DISCOVERY} :
         FirstHandler(url) > 0 =>
           Precedes(FirstEntry(<<"driver_init", TRUE>>), FirstHandler(url))
    /\ \A op \in {"get_scheduleevents", "scheduler_start"} :
         FirstCall(op) > 0 =>
           /\ Precedes(FirstEntry(<<"driver_init", TRUE>>), FirstCall(op))
           /\ Precedes(FirstHandler(EDGEX_DEV_API_DEVICE), FirstCall(op))
           /\ Precedes(FirstHandler(EDGEX_DEV_API_DISCOVERY), FirstCall(op))
    /\ svc.schedules # <<>> => Called("get_scheduleevents")
    /\ svc.scheduler = "started" => Called("scheduler_start")

C5_Witness ==
  /\ InStart
  /\ svc.scheduler = "started"
  /\ svc.schedules # <<>>
  /\ FirstHandler(EDGEX_DEV_API_DISCOVERY) > 0

\* C6: a start that fails is followed by a stop that releases, exactly once,
\* everything the failed start allocated: after the stop nothing is live and
\* nothing was freed that was not live.
C6_FailedStartReleased ==
  (pc = "stopped" /\ args.started \notin {"OK", "UNSET"}) =>
    heap = {} /\ faults = {}

\* C7: edgex_device_service_new answers NO_DEVICE_IMPL for a null impldata,
\* else NO_DEVICE_NAME for a null or empty name, else NO_DEVICE_VERSION for
\* a null or empty version, allocating nothing; every other input gives a
\* service with err OK, empty device and name-to-id maps, no scheduled jobs
\* and a worker pool and scheduler that are initialised.
C7_NewContract ==
  (calls # <<>> /\ calls[1][1] = "service_new") =>
    LET name == calls[1][2][1]
        version == calls[1][2][2]
        impldata == calls[1][2][3]
        noname == name = NULL \/ name = ""
        noversion == version = NULL \/ version = ""
    IN /\ impldata = NULL => err = "NO_DEVICE_IMPL"
       /\ (impldata # NULL /\ noname) => err = "NO_DEVICE_NAME"
       /\ (impldata # NULL /\ ~noname /\ noversion) => err = "NO_DEVICE_VERSION"
       /\ (impldata = NULL \/ noname \/ noversion) =>
            svc.alloc = "none" /\ heap = {} /\ pc = "no_service"
       /\ (impldata # NULL /\ ~noname /\ ~noversion) =>
            /\ err = "OK"
            /\ svc.alloc = "live" /\ "svc" \in heap
            /\ svc.devices = {} /\ svc.name_to_id = {} /\ svc.sjobs = <<>>
            /\ svc.thpool = "live" /\ svc.scheduler = "init"
            /\ svc.name = name /\ svc.version = version /\ svc.userdata = impldata

C7_Witness ==
  /\ pc = "no_service"
  /\ err = "NO_DEVICE_IMPL"
  /\ calls[1][2][1] = NULL
  /\ calls[1][2][2] = ""

\* C8: the registry is pinged at most five times; when all five pings fail
\* the start answers REMOTE_SERVER_DOWN at once, with no configuration
\* fetched or read and nothing else contacted; when a ping is answered the
\* start goes on to get_config.
C8_RegistryFailFast ==
  /\ pc = "registry_ping" => loc.pings < 5 /\ ~loc.pong
  /\ pc = "get_config" => loc.pings \in 1..5 /\ loc.pong
  /\ (InStart /\ pc = "returned" /\ LastCall = "registry_ping") =>
       /\ loc.pings = 5 /\ ~loc.pong
       /\ err = "REMOTE_SERVER_DOWN"
       /\ Ops = <<"service_start", "get_registry", "registry_ping">>
       /\ svc.driver = "new"

C8_Witness ==
  /\ pc = "returned"
  /\ LastCall = "registry_ping"
  /\ err = "REMOTE_SERVER_DOWN"
  /\ loc.pings = 5

\* C9: whenever the registry held no configuration (uploadConfig), the
\* configuration read from file is pushed to the registry with put_config,
\* under the service name and the profile, before core-data is contacted,
\* whatever the profile, a null one included.
C9_UploadBeforeData ==
  (InStart /\ loc.uploadConfig /\ Called("ping_data")) =>
    /\ Precedes(FirstCall("loadConfig"), FirstCall("put_config"))
    /\ Precedes(FirstEntry(<<"put_config", <<svc.name, args.profile>>>>), FirstCall("ping_data"))

\* C10: whatever connectretries is configured, core-data and core-metadata
\* are each pinged at most connectretries times, core-metadata only once
\* core-data has answered, and a loop all of whose pings failed ends the
\* start with REMOTE_SERVER_DOWN before any lookup in core-metadata.
C10_ConnectRetries ==
  InConfigured =>
    /\ loc.pings <= svc.config.connectretries
    /\ Called("ping_metadata") => Precedes(FirstCall("ping_data"), FirstCall("ping_metadata"))
    /\ (pc = "start_return" /\ LastCall \in {"ping_data", "ping_metadata"}) =>
         err = "REMOTE_SERVER_DOWN" /\ ~loc.pong


\* the answer logged with the first call of op: "none" when the thing looked
\* up is absent, "found", "error"; "uncalled" when op was not called
Answer(op) == IF Called(op) THEN calls[FirstCall(op)][2][2] ELSE "uncalled"

RegistrationOps ==
  {"get_deviceservice", "get_addressable", "create_addressable", "create_deviceservice"}

\* C11: the device service is created exactly when its lookup by name found
\* none; its addressable is created exactly when, in addition, the lookup of
\* the addressable found none, and before the service; the addressable is
\* POST, HTTP, the configured host and port, /api/v1/callback, the service
\* ENABLED and UNLOCKED; an error of a lookup or create ends the start
\* before the profiles are uploaded.
C11_ServiceRegistration ==
  InStart =>
    /\ \A op \in RegistrationOps : Count(Ops, op) <= 1
    /\ Called("get_addressable") => Answer("get_deviceservice") = "none"
    /\ Called("create_addressable") =>
         /\ Answer("get_deviceservice") = "none" /\ Answer("get_addressable") = "none"
         /\ Precedes(FirstCall("create_addressable"), FirstCall("create_deviceservice"))
         /\ calls[FirstCall("create_addressable")][2] =
              [name |-> svc.name, method |-> "POST", protocol |-> "HTTP",
               address |-> ServiceHost, port |-> ServicePort,
               path |-> EDGEX_DEV_API_CALLBACK]
    /\ Called("create_deviceservice") =>
         /\ Answer("get_deviceservice") = "none"
         /\ Answer("get_addressable") \in {"none", "found"}
         /\ Answer("get_addressable") = "none" => Called("create_addressable")
         /\ calls[FirstCall("create_deviceservice")][2].operatingState = "ENABLED"
         /\ calls[FirstCall("create_deviceservice")][2].adminState = "UNLOCKED"
         /\ calls[FirstCall("create_deviceservice")][2].name = svc.name
    /\ Called("profiles_upload") =>
         /\ Answer("get_deviceservice") \in {"none", "found"}
         /\ Answer("get_deviceservice") = "none" => Called("create_deviceservice")
    /\ (pc \in {"start_return", "returned"} /\ LastCall \in RegistrationOps) =>
         err = "HTTP_ERROR"
    /\ \A op \in {"get_deviceservice", "get_addressable"} :
         Answer(op) = "error" => LastCall = op /\ err = "HTTP_ERROR"

C11_Witness ==
  /\ InStart
  /\ Called("create_addressable")
  /\ Called("create_deviceservice")
  /\ Called("profiles_upload")


\* what startConfigured does after the loop over the configured schedules
AfterScheduleOps ==
  {"create_event_addressable", "create_scheduleevent", "get_scheduleevents",
   "get_schedule", "scheduler_start"}

\* C12: create_schedule is called once for each configured schedule, in
\* turn; after success or CONFLICT the loop goes on to the next schedule, any
\* other error ends the start with that error, with no schedule-event
\* addressable or schedule-event created and the scheduler not started; a
\* start never answers CONFLICT.
C12_ScheduleCreate ==
  InStart =>
    LET n == Count(Ops, "create_schedule") IN
    /\ n <= svc.config.schedules
    /\ \A j \in 1..n : Count(calls, <<"create_schedule", j>>) = 1
    /\ (pc = "create_schedules" /\ LastCall = "create_schedule") =>
         err \in {"OK", "HTTP_CONFLICT"} /\ loc.i = n
    /\ (\E op \in AfterScheduleOps : Called(op)) => n = svc.config.schedules
    /\ (pc \in {"start_return", "returned"} /\ LastCall = "create_schedule") =>
         /\ err = "HTTP_ERROR"
         /\ svc.scheduler # "started"
    /\ pc = "returned" => err # "HTTP_CONFLICT"

C12_Witness ==
  /\ InStart
  /\ pc = "returned"
  /\ err = "OK"
  /\ Count(Ops, "create_schedule") = 2
  /\ svc.scheduler = "started"


\* the arguments of the calls of op, in the order of the calls
ArgsOf(op) ==
  LET at == SelectSeq(calls, LAMBDA c : c[1] = op) IN [k \in 1..Len(at) |-> at[k][2]]

EventCreateOps == {"create_event_addressable", "create_scheduleevent"}

\* C13: the configured schedule-events are taken in turn.  One whose path is
\* neither /api/v1/discovery nor under /api/v1/device/ ends the start with
\* BAD_CONFIG, with no addressable and no schedule-event created for it.  For
\* a valid one the addressable <event>_addr is created and then the
\* schedule-event bound to it; CONFLICT from either create is passed over,
\* any other error ends the start.
C13_ScheduleEvents ==
  InStart =>
    LET evs == svc.config.scheduleevents
        addrs == ArgsOf("create_event_addressable")
        events == ArgsOf("create_scheduleevent")
    IN
    /\ Len(events) <= Len(addrs) /\ Len(addrs) <= Len(events) + 1
    /\ Len(addrs) <= Len(evs)
    /\ \A k \in 1..Len(addrs) :
         /\ addrs[k].name = <<k, "_addr">>
         /\ addrs[k].path = evs[k]
         /\ IsDiscoveryPath(evs[k]) \/ IsDevicePath(evs[k])
    /\ \A k \in 1..Len(events) :
         /\ events[k].name = k
         /\ events[k].addressable = addrs[k].name
         /\ Precedes(FirstEntry(<<"create_event_addressable", addrs[k]>>),
                     FirstEntry(<<"create_scheduleevent", events[k]>>))
    /\ \A k \in 1..Len(evs) :
         <<"invalid_event", k>> \in Range(calls) =>
           /\ ~IsDiscoveryPath(evs[k]) /\ ~IsDevicePath(evs[k])
           /\ Len(addrs) = k - 1 /\ Len(events) = k - 1
           /\ LastCall = "invalid_event"
           /\ pc \in {"start_return", "returned"} /\ err = "BAD_CONFIG"
    /\ Called("get_scheduleevents") =>
         /\ Len(events) = Len(evs)
         /\ \A k \in 1..Len(evs) : IsDiscoveryPath(evs[k]) \/ IsDevicePath(evs[k])
    /\ (pc = "create_scheduleevents" /\ LastCall \in EventCreateOps) =>
         /\ err \in {"OK", "HTTP_CONFLICT"}
         /\ loc.step = (IF LastCall = "create_event_addressable" THEN 1 ELSE 0)
    /\ (pc \in {"start_return", "returned"} /\ LastCall \in EventCreateOps) =>
         err = "HTTP_ERROR"

C13_Witness ==
  /\ InStart
  /\ pc = "returned"
  /\ <<"invalid_event", 2>> \in Range(calls)
  /\ Called("create_scheduleevent")


\* the jobs of the scheduler that run dev_invoker
DeviceJobs == SelectSeq(svc.schedules, LAMBDA j : j.fn = "dev_invoker")

\* C14: the scheduler holds, in the order of the schedule-events fetched
\* from core-metadata, one job for each: a discovery job for the path
\* /api/v1/discovery, a device job carrying what follows /api/v1/device/ for
\* a path under it, with the interval parsed from the schedule fetched and
\* repeat 0 (for ever); svc->sjobs holds one record for each device job.  Any
\* other path, or a frequency that does not parse, ends the start with
\* BAD_CONFIG, and the scheduler is started only when every event is added.
C14_JobsFromMetadata ==
  (InStart /\ Called("get_scheduleevents")) =>
    LET evs == calls[FirstCall("get_scheduleevents")][2][2]
        gs == ArgsOf("get_schedule")
        jobs == svc.schedules
    IN
    /\ Len(jobs) <= Len(gs) /\ Len(gs) <= Len(jobs) + 1 /\ Len(gs) <= Len(evs)
    /\ \A k \in 1..Len(jobs) :
         /\ gs[k][1] = "ok"
         /\ jobs[k].interval = gs[k][2]
         /\ jobs[k].repeat = 0
         /\ IF evs[k] = EDGEX_DEV_API_DISCOVERY
            THEN jobs[k].fn = "do_discovery"
            ELSE /\ jobs[k].fn = "dev_invoker"
                 /\ <<"api", "v1", "device">> \o jobs[k].arg = evs[k]
    /\ Len(svc.sjobs) = Len(DeviceJobs)
    /\ \A k \in 1..Len(DeviceJobs) : svc.sjobs[Len(DeviceJobs) - k + 1] = DeviceJobs[k].arg
    /\ Called("scheduler_start") => Len(jobs) = Len(evs)
    /\ (pc = "returned" /\ err = "OK") => Len(jobs) = Len(evs) /\ svc.scheduler = "started"
    /\ (pc \in {"start_return", "returned"} /\ LastCall = "get_schedule") =>
         LET last == gs[Len(gs)] IN
         /\ svc.scheduler # "started"
         /\ Len(jobs) = Len(gs) - 1
         /\ last[1] = "error" => err = "HTTP_ERROR"
         /\ last[1] = "unparsed" => err = "BAD_CONFIG"
         /\ last[1] = "ok" =>
              /\ err = "BAD_CONFIG"
              /\ evs[Len(gs)] # EDGEX_DEV_API_DISCOVERY
              /\ SubSeq(evs[Len(gs)], 1, 3) # <<"api", "v1", "device">>

C14_Witness ==
  /\ InStart
  /\ pc = "returned"
  /\ err = "OK"
  /\ Len(svc.schedules) = 2
  /\ Len(svc.sjobs) = 1
  /\ svc.schedules[2].fn = "do_discovery"


\* core-metadata held the device service when the start looked it up, and
\* has taken no create since: every create of this start was answered CONFLICT
Populated == Answer("get_deviceservice") = "found" /\ ~loc.created

MetadataCreateOps ==
  {"create_schedule", "create_event_addressable", "create_scheduleevent"}

\* C15: a start against a core-metadata that already holds the device
\* service, the schedules, the addressables and the schedule-events issues no
\* create for the device service or its addressable, goes on after every
\* CONFLICT, leaves core-metadata as it found it, and, when nothing else
\* fails, answers OK.
C15_IdempotentStart ==
  (InStart /\ Populated) =>
    /\ ~Called("create_deviceservice")
    /\ ~Called("create_addressable")
    /\ ~Called("get_addressable")
    /\ (pc \in {"create_schedules", "create_scheduleevents"}
          /\ LastCall \in MetadataCreateOps) => err = "HTTP_CONFLICT"
    /\ pc = "returned" => err # "HTTP_CONFLICT"
    /\ (pc = "returned" /\ svc.handlers = HandlerOrder) =>
         \/ err = "OK"
         \/ err = "REGISTRY_REGISTER" /\ LastCall = "register_service"

C15_Witness ==
  /\ InStart
  /\ Populated
  /\ pc = "returned"
  /\ err = "OK"
  /\ Count(Ops, "create_schedule") = 2
  /\ Count(Ops, "create_scheduleevent") = 2

-----------------------------------------------------------------------------
(* Posting readings *)

Posts == DOMAIN conc.posts
Post(p) == conc.posts[p]
Queued == {p \in Posts : Post(p).stage = "queued"}

C17_AtMostOnce ==
  /\ [](\A p \in Posts :
          /\ Post(p).adds <= 1
          /\ Post(p).jevent = NULL => Post(p).stage = "none" /\ Post(p).adds = 0)
  /\ [][/\ \A p \in Posts :
             Post(p).stage \in {"done", "none"} => conc'.posts[p] = Post(p)
        /\ Len(conc'.posts) > Len(conc.posts)
             => /\ Len(conc'.posts) = Len(conc.posts) + 1
                /\ conc'.queue = conc.queue
                     + (IF conc'.posts[Len(conc'.posts)].jevent = NULL THEN 0 ELSE 1)
        /\ conc'.queue > conc.queue => Len(conc'.posts) > Len(conc.posts)]_vars

\* one call generated no event, another's POST failed, and nothing is queued
C17_Witness ==
  /\ conc.queue = 0
  /\ \E p, q \in Posts :
       /\ Post(p).jevent = NULL
       /\ Post(q).stage = "done" /\ Post(q).result = "failed" /\ Post(q).adds = 1

-----------------------------------------------------------------------------
(* Scheduled jobs *)

Fired == DOMAIN conc.fired
Firing(f) == conc.fired[f]
DeviceFirings == {f \in Fired : Firing(f).fn = "dev_invoker"}

\* the URL suffix stored in the job record when the job was scheduled
StoredURL(k) == StartedService.schedules[k].arg

IsSuccess(rc) == rc \in 200..299

\* C18: a firing of a device-URL job makes dev_invoker ask the dispatcher
\* once, with GET and the URL suffix stored in the job, and an error is
\* logged exactly when the status answered is not a 2xx status.
C18_DevInvoker ==
  \A f \in DeviceFirings :
    /\ Firing(f).stage = "due" => Firing(f).gets = <<>> /\ ~Firing(f).logged
    /\ Firing(f).stage = "get"
         => Firing(f).gets = << <<"GET", StoredURL(Firing(f).job)>> >> /\ ~Firing(f).logged
    /\ Firing(f).stage = "done"
         => /\ Firing(f).gets = << <<"GET", StoredURL(Firing(f).job)>> >>
            /\ Firing(f).logged <=> ~IsSuccess(Firing(f).rc)

\* one firing answered 404 and logged, another answered 200 and not logged
C18_Witness ==
  \E f, g \in DeviceFirings :
    /\ Firing(f).stage = "done" /\ Firing(f).rc = 404 /\ Firing(f).logged
    /\ Firing(g).stage = "done" /\ Firing(g).rc = MHD_HTTP_OK /\ ~Firing(g).logged

Failed == {f \in DeviceFirings : Firing(f).stage = "done" /\ Firing(f).logged}

\* C19: a device-URL job whose request failed is logged and nothing more:
\* until edgex_device_service_stop is called the scheduler is running with
\* every job it was given and svc->sjobs holds every job record, so the job
\* can fire again; the schedule changes only in the scheduler_stop step of
\* stop and svc->sjobs only in its free_sjobs step.
C19_FailedJobStays ==
  /\ [](Failed # {} /\ pc = "returned"
          => /\ svc.scheduler = "started"
             /\ svc.schedules = StartedService.schedules
             /\ svc.sjobs = StartedService.sjobs
             /\ "sjobs" \in heap)
  /\ [][/\ svc'.schedules # svc.schedules => pc = "scheduler_stop"
        /\ svc'.sjobs # svc.sjobs => pc = "free_sjobs"]_vars

\* the job whose request failed has fired again
C19_Witness ==
  \E f \in Failed : \E g \in DeviceFirings : g > f /\ Firing(g).job = Firing(f).job

-----------------------------------------------------------------------------
(* The lock of the device cache *)

\* C20: svc->deviceslock prefers writers: while a writer waits for the lock,
\* no reader is let in, so the number of readers holding it does not grow.
C20_WriterPreference ==
  [][conc.lock.wwait > 0 => conc'.lock.readers <= conc.lock.readers]_vars

-----------------------------------------------------------------------------
(* The ping handler *)

Answered == conc.ping.stage = "answered"

-----------------------------------------------------------------------------
(* A driver that does not start *)

InitFailed == <<"driver_init", FALSE>> \in Range(calls)

\* what startConfigured does after the driver's init
AfterInitOps ==
  { "create_schedule", "invalid_event", "create_event_addressable",
    "create_scheduleevent", "get_scheduleevents", "get_schedule",
    "scheduler_start", "register_service" }

\* C22: when the driver's init answers false, startConfigured answers
\* DRIVER_UNSTART and does nothing more: the init is its last call, only the
\* callback handler is registered, no schedule, schedule-event or event
\* addressable is created, no job is scheduled, the scheduler is not started
\* and the service is not registered with the registry.  The init is called
\* at most once in a start, after the REST server was created and the
\* callback handler registered, and after the configured devices were
\* processed when the configuration was read from file.
C22_DriverUnstart ==
  InStart =>
    /\ Count(Ops, "driver_init") <= 1
    /\ Called("driver_init") =>
         /\ Precedes(FirstCall("rest_server_create"), FirstCall("driver_init"))
         /\ Precedes(FirstHandler(EDGEX_DEV_API_CALLBACK), FirstCall("driver_init"))
         /\ Called("loadConfig") =>
              Precedes(FirstCall("process_configured_devices"), FirstCall("driver_init"))
    /\ InitFailed =>
         /\ err = "DRIVER_UNSTART"
         /\ pc \in {"start_return", "returned"}
         /\ LastCall = "driver_init"
         /\ svc.handlers = <<EDGEX_DEV_API_CALLBACK>>
         /\ AfterInitOps \cap Range(Ops) = {}
         /\ svc.schedules = <<>> /\ svc.sjobs = <<>>
         /\ svc.scheduler = "init"
         /\ svc.daemon = "live"

\* a start with a registry in use and a check interval set has returned
\* DRIVER_UNSTART
C22_Witness ==
  /\ InStart /\ pc = "returned"
  /\ InitFailed
  /\ Called("get_registry")
  /\ svc.config.checkinterval # 0
  /\ svc.config.scheduleevents # <<>>

-----------------------------------------------------------------------------
(* A ping that is answered *)

PingOps == {"ping_data", "ping_metadata"}

\* C23: once core-data or core-metadata has answered a ping, on whichever
\* attempt and whatever connectretries is, 0 included, startConfigured does
\* not return for that service (so does not report REMOTE_SERVER_DOWN) but
\* goes on, and after the two loops err is OK.
C23_AnsweredPingGoesOn ==
  InConfigured =>
    /\ (pc = "start_return" /\ LastCall \in PingOps) => ~loc.pong
    /\ pc = "get_deviceservice" => err = "OK"

-----------------------------------------------------------------------------
(* Registration with the registry *)

\* the start has gone past the place where the service is registered
PastRegistration ==
  /\ FirstHandler(EDGEX_DEV_API_PING) > 0
  /\ pc # "register_service"

-----------------------------------------------------------------------------
(* Where the configuration comes from *)

RegistryInUse == args.registryURL # NULL

\* the start has gone past the place where the configured devices are processed
PastConfiguredDevices ==
  /\ FirstHandler(EDGEX_DEV_API_CALLBACK) > 0
  /\ pc # "process_configured_devices"

\* C25: the configuration file is read exactly when no registry is in use or
\* the registry gave no configuration; edgex_registry_put_config is called
\* only with a registry in use that gave no configuration; and the DeviceList
\* is processed exactly when the file was read, after the callback handler
\* is registered and before the driver's init.
C25_ConfigSource ==
  InStart =>
    /\ Count(Ops, "loadConfig") <= 1
    /\ Called("loadConfig") => ~RegistryInUse \/ Called("get_config")
    /\ pc = "loadConfig" => loc.registry = NULL \/ loc.uploadConfig
    /\ (~RegistryInUse /\ pc \notin {"get_registry", "loadConfig"}) => Called("loadConfig")
    /\ InConfigured =>
         /\ Called("loadConfig") <=> (loc.registry = NULL \/ loc.uploadConfig)
         /\ Called("loadConfig") <=> loc.config # NULL
         /\ loc.registry = NULL <=> ~RegistryInUse
    /\ Called("put_config") =>
         /\ RegistryInUse
         /\ Precedes(FirstCall("get_config"), FirstCall("loadConfig"))
         /\ Precedes(FirstCall("loadConfig"), FirstCall("put_config"))
    /\ Called("process_configured_devices") =>
         /\ Called("loadConfig")
         /\ Count(Ops, "process_configured_devices") = 1
         /\ Precedes(FirstHandler(EDGEX_DEV_API_CALLBACK),
                     FirstCall("process_configured_devices"))
         /\ Called("driver_init") =>
              Precedes(FirstCall("process_configured_devices"), FirstCall("driver_init"))
    /\ (PastConfiguredDevices /\ Called("loadConfig"))
         => Called("process_configured_devices")

\* the registry gave a configuration: no file read, nothing uploaded, no
\* DeviceList processed, and the driver initialised
C25_Witness ==
  /\ InStart /\ pc = "returned"
  /\ Called("get_config")
  /\ ~Called("loadConfig") /\ ~Called("put_config")
  /\ ~Called("process_configured_devices")
  /\ <<"driver_init", TRUE>> \in Range(calls)

-----------------------------------------------------------------------------
(* The force flag of stop *)

\* what edgex_device_service_stop frees
StopFrees == {"svc", "thpool", "scheduler", "logger", "daemon", "sjobs"}

\* C26: edgex_device_service_stop calls the driver's stop once, with the
\* force value it was given, whatever the driver's init did or whether it
\* was called at all; the steps before and after it, and what they free, do
\* not depend on force; and err is OK throughout.
C26_ForceOnlyToDriver ==
  InStop =>
    /\ err = "OK"
    /\ Count(Ops, "driver_stop") <= 1
    /\ \A i \in DOMAIN calls :
         calls[i][2] = (IF calls[i][1] = "driver_stop" THEN args.force ELSE <<>>)
    /\ Called("driver_stop") <=> svc.driver = "stopped"
    /\ Called("thpool_destroy") => Called("driver_stop")
    /\ Called("driver_stop") =>
         Ops[FirstCall("driver_stop") - 1] \in {"scheduler_stop", "rest_server_destroy", "service_stop"}
    /\ pc = "stopped" =>
         /\ Called("driver_stop")
         /\ SubSeq(Ops, FirstCall("driver_stop"), Len(Ops))
              = <<"driver_stop", "thpool_destroy", "free_sjobs", "freeConfig",
                  "logger_destroy", "free_caches", "free_svc">>
         /\ heap \cap StopFrees = {}
         /\ svc.alloc = "freed"

\* a forced stop has ended after a start that failed before the REST server
\* was created, the driver's init never having been called
C26_Witness ==
  /\ InStop /\ pc = "stopped"
  /\ args.started \notin {"OK", "UNSET"}
  /\ svc.daemon = NULL
  /\ <<"driver_stop", TRUE>> \in Range(calls)

-----------------------------------------------------------------------------
(* The registry client *)

RegistryOps == {"registry_ping", "get_config", "put_config", "register_service"}

\* the call that the step logs, if it logs a new one
NewCall == IF Len(calls') > Len(calls) THEN calls'[Len(calls')][1] ELSE "none"

\* a registry operation is made on a live client, which the step frees if
\* the start returns on it
RegistryUse ==
  NewCall \in RegistryOps =>
    /\ loc.registry = "live"
    /\ "registry" \in heap
    /\ (pc' = "returned") <=> ("registry" \notin heap')

\* C27: a registry client obtained by edgex_device_service_start is live
\* until the start returns and is freed once on every way out, never twice;
\* every registry operation is made while it is live; and without a registry
\* URL no client is obtained and no registry operation is made.
C27_RegistryClient ==
  /\ [](InStart =>
          /\ "registry" \notin faults
          /\ pc = "returned" => "registry" \notin heap
          /\ "registry" \in heap <=> loc.registry = "live"
          /\ loc.registry = "live" => RegistryInUse /\ Called("get_registry")
          /\ ~RegistryInUse =>
               /\ RegistryOps \cap Range(Ops) = {}
               /\ ~Called("get_registry")
               /\ loc.registry = NULL)
  /\ [][RegistryUse]_vars

\* the start has returned after registering the service with the registry
C27_Witness ==
  /\ InStart /\ pc = "returned"
  /\ Called("register_service")
  /\ "registry" \notin heap

====
